---- MODULE Spec2Model ----
(***************************************************************************)
(* A model of the thunk execution core of bass: the translation of a thunk *)
(* into a build graph (builder.llb and its helpers), the two-pass solve of *)
(* Buildkit.build with its status proxy, and the operations Run, Read,     *)
(* Export, ExportPath and Resolve of the Buildkit runtime.                 *)
(*                                                                         *)
(* Go strings that are paths are sequences of path segments: "" is <<>>,   *)
(* "." is <<".">>, "a/b" is <<"a", "b">>.  An absolute path is the         *)
(* sequence of its segments after the root.  An error is the chain of its  *)
(* messages, outermost wrap first; <<>> is the nil error.                  *)
(***************************************************************************)
EXTENDS Integers, Sequences, FiniteSets, TLC

VARIABLES
  thunk,      \* the thunk handed to the translator or to the operation
  res,        \* SpecLLB: what the last translation returned
  op,         \* the top-level operation being run and its arguments
  pc,         \* the position of the operation's own thread of control
  ret,        \* what the operation returned to its caller
  tmp,        \* Run/Read: the host scratch directory
  w,          \* the bytes the caller's writer has received
  bld,        \* the local variables of Buildkit.build and of its builder
  sol,        \* the solver's side of each solve
  wk,         \* the status-consumer worker started by each Writer() call
  wg,         \* the WaitGroup counter of each status proxy
  prog,       \* the in-process progress model of each status proxy
  rec,        \* the progress recorder
  imageRef0,  \* Resolve: the caller's image ref
  prune,      \* Prune: the call, its printing goroutine and its output
  call        \* a call of a function of the value model: input and result

vars == <<thunk, res, op, pc, ret, tmp, w, bld, sol, wk, wg, prog, rec, imageRef0,
          prune, call>>

(***************************************************************************)
(* Bounds of the model.                                                    *)
(***************************************************************************)
MaxMounts == 2     \* mounts of the thunk drawn for a translation
MaxStatus == 2     \* status messages the solver sends in one solve
MaxUsage == 2      \* usage records the solver streams in one prune
ExportChunks == 2  \* chunks of an exported archive or of a captured stdout

(***************************************************************************)
(* Fixed paths in the container.                                           *)
(***************************************************************************)
shimExePath == <<"bass", "shim">>
workDir == <<"bass", "work">>
ioDir == <<"bass", "io">>
inputFile == <<"bass", "io", "in">>
outputFile == <<"bass", "io", "out">>

\* The architectures an embedded shim exists for.
allShims == {"amd64", "arm64"}

(***************************************************************************)
(* path/filepath.                                                          *)
(***************************************************************************)
\* path.Clean of a non-empty relative path without "..": drops the "."
\* segments; the empty result is ".".
Clean(p) ==
  LET q == SelectSeq(p, LAMBDA s : s # ".")
  IN  IF q = <<>> THEN <<".">> ELSE q

\* filepath.Join(a, b) of two relative paths: empty elements are ignored, the
\* result is cleaned, and joining nothing but empty strings is "".
Join(a, b) == IF a = <<>> /\ b = <<>> THEN <<>> ELSE Clean(a \o b)

\* filepath.Join(dir, rel) for an absolute dir.
JoinAbs(dir, rel) == dir \o SelectSeq(rel, LAMBDA s : s # ".")

(***************************************************************************)
(* Errors.                                                                 *)
(***************************************************************************)
NoErr == <<>>

\* fmt.Errorf("<msg>: %w", err)
Wrap(msg, err) == <<msg>> \o err

(***************************************************************************)
(* Thunks.  A thunk is [image, insecure, mounts]; an image is one of       *)
(*   [kind |-> "none"]                        no image                     *)
(*   [kind |-> "ref", ref |-> ThunkImageRef]  a ref, to a repository or to *)
(*                                            an OCI archive file          *)
(*   [kind |-> "thunk", thunk |-> Thunk]      a parent thunk               *)
(*   [kind |-> "empty"]                       a ThunkImage with no arm set *)
(* and a mount is [source, target], the source being one of                *)
(*   [kind |-> "thunk", thunk, path]   [kind |-> "host", context, path]    *)
(*   [kind |-> "fs", id, path]         [kind |-> "cache", path]            *)
(*   [kind |-> "secret", name, value]                                      *)
(* and the target [abs |-> BOOLEAN, path |-> segments].                    *)
(***************************************************************************)
NoImage == [kind |-> "none"]
EmptyImage == [kind |-> "empty"]
NoFile == [kind |-> "none"]

RepoRef(repo, tag, digest) ==
  [kind |-> "ref",
   ref |-> [repository |-> repo, file |-> NoFile, tag |-> tag, digest |-> digest]]

FileRef(t, p, tag) ==
  [kind |-> "ref",
   ref |-> [repository |-> "", file |-> [kind |-> "file", thunk |-> t, path |-> p],
            tag |-> tag, digest |-> ""]]

ParentImage(t) == [kind |-> "thunk", thunk |-> t]

ThunkSource(t, p) == [kind |-> "thunk", thunk |-> t, path |-> p]
HostSource(c, p) == [kind |-> "host", context |-> c, path |-> p]
FsSource(id, p) == [kind |-> "fs", id |-> id, path |-> p]
CacheSource(p) == [kind |-> "cache", path |-> p]
SecretSource(n, v) == [kind |-> "secret", name |-> n, value |-> v]

Rel(p) == [abs |-> FALSE, path |-> p]
Abs(p) == [abs |-> TRUE, path |-> p]

Mount(s, t) == [source |-> s, target |-> t]

Thunk(i, ins, ms) == [image |-> i, insecure |-> ins, mounts |-> ms]

(***************************************************************************)
(* The wire encoding (MarshalProto).  A wire message is a record whose     *)
(* oneof arm is named by its "is" field.                                   *)
(***************************************************************************)
RECURSIVE ThunkMarshalProto(_)

\* Secret.MarshalProto: the name and the secret's bytes.
SecretMarshalProto(s) == [Name |-> s.name, Value |-> s.value]

\* FileOrDirPath.MarshalProto, for the paths of the model (all relative).
FilesystemPathMarshalProto(p) == [Path |-> p]

\* ThunkPath.MarshalProto
ThunkPathMarshalProto(tp) ==
  [Thunk |-> ThunkMarshalProto(tp.thunk), Path |-> FilesystemPathMarshalProto(tp.path)]

\* ThunkMountSource.MarshalProto; the FsSource and HostSource arms carry the
\* id or context and the path, the CacheSource arm an empty Id.
ThunkMountSourceMarshalProto(src) ==
  CASE src.kind = "thunk" ->
         [is |-> "ThunkSource", ThunkSource |-> ThunkPathMarshalProto(src)]
    [] src.kind = "host" ->
         [is |-> "HostSource",
          HostSource |-> [Context |-> src.context,
                          Path |-> FilesystemPathMarshalProto(src.path)]]
    [] src.kind = "fs" ->
         [is |-> "FsSource",
          FsSource |-> [Id |-> src.id, Path |-> FilesystemPathMarshalProto(src.path)]]
    [] src.kind = "cache" ->
         [is |-> "CacheSource",
          CacheSource |-> [Id |-> "", Path |-> FilesystemPathMarshalProto(src.path)]]
    [] src.kind = "secret" ->
         [is |-> "SecretSource", SecretSource |-> SecretMarshalProto(src)]

\* ThunkMount.MarshalProto
ThunkMountMarshalProto(m) ==
  [Source |-> ThunkMountSourceMarshalProto(m.source),
   Target |-> [Abs |-> m.target.abs, Path |-> FilesystemPathMarshalProto(m.target.path)]]

\* ThunkImageRef.MarshalProto: tag and digest are set only when not empty;
\* the source arm is the file when there is one, else the repository.
ThunkImageRefMarshalProto(ref) ==
  [Tag |-> IF ref.tag # "" THEN <<ref.tag>> ELSE <<>>,
   Digest |-> IF ref.digest # "" THEN <<ref.digest>> ELSE <<>>,
   Source |-> IF ref.file.kind = "file"
                THEN [is |-> "File", File |-> ThunkPathMarshalProto(ref.file)]
                ELSE IF ref.repository # ""
                       THEN [is |-> "Repository", Repository |-> ref.repository]
                       ELSE [is |-> "none"]]

\* ThunkImage.MarshalProto
ThunkImageMarshalProto(img) ==
  IF img.kind = "ref"
    THEN [is |-> "RefImage", RefImage |-> ThunkImageRefMarshalProto(img.ref)]
    ELSE IF img.kind = "thunk"
           THEN [is |-> "ThunkImage", ThunkImage |-> ThunkMarshalProto(img.thunk)]
           ELSE [is |-> "error"]

\* Thunk.MarshalProto, for the fields of the model.
ThunkMarshalProto(t) ==
  [Insecure |-> t.insecure,
   Image |-> IF t.image.kind = "none" THEN [is |-> "nil"]
             ELSE ThunkImageMarshalProto(t.image),
   Mounts |-> [i \in 1..Len(t.mounts) |-> ThunkMountMarshalProto(t.mounts[i])]]

(***************************************************************************)
(* The fingerprint.  The canonical form leaves out the bytes of secrets.   *)
(***************************************************************************)
RECURSIVE WithSecretBytes(_, _)

\* The thunk with the bytes of each of its secrets, at any depth, set to v.
WithSecretBytes(t, v) ==
  LET src(s) ==
        CASE s.kind = "secret" -> [s EXCEPT !.value = v]
          [] s.kind = "thunk" -> [s EXCEPT !.thunk = WithSecretBytes(s.thunk, v)]
          [] OTHER -> s
      img(i) ==
        CASE i.kind = "thunk" -> [i EXCEPT !.thunk = WithSecretBytes(i.thunk, v)]
          [] i.kind = "ref" /\ i.ref.file.kind = "file" ->
               [i EXCEPT !.ref.file.thunk = WithSecretBytes(i.ref.file.thunk, v)]
          [] OTHER -> i
  IN  [t EXCEPT !.image = img(t.image),
                !.mounts = [k \in 1..Len(t.mounts) |->
                              [t.mounts[k] EXCEPT !.source = src(t.mounts[k].source)]]]

\* thunk.SHA256(): the hash of the canonical form, kept as the form itself.
SHA256(t) == [sha256 |-> ThunkMarshalProto(WithSecretBytes(t, ""))]

(***************************************************************************)
(* Build-graph states (llb.State) and the nodes of the graph.              *)
(***************************************************************************)
Scratch == [op |-> "scratch"]

\* llb.Image(ref, llb.WithMetaResolver(resolver), llb.Platform(platform))
Image(ref, arch) == [op |-> "image", ref |-> ref, arch |-> arch]

\* State.File(action): a file operation on top of a state.
File(base, action) == [op |-> "file", base |-> base, action |-> action]

\* llb.Local(contextDir, ExcludePatterns, Differ(DiffMetadata))
Local(contextDir) == [op |-> "local", name |-> contextDir]

\* A mount of a Run node.  kind is "bind", "tmpfs", "cache" or "secret".
MountInfo(target, kind, source, sourcePath, cacheId, secretId) ==
  [target |-> target, kind |-> kind, source |-> source, sourcePath |-> sourcePath,
   cacheId |-> cacheId, secretId |-> secretId]

\* llb.AddMount(target, source, llb.SourcePath(sourcePath))
AddMount(target, source, sourcePath) ==
  MountInfo(target, "bind", source, sourcePath, <<>>, "")

\* llb.AddMount(target, llb.Scratch(), llb.Tmpfs())
AddTmpfs(target) == MountInfo(target, "tmpfs", Scratch, <<>>, <<>>, "")

\* llb.AddMount(target, llb.Scratch(), llb.AsPersistentCacheDir(id, CacheMountLocked))
AddCacheMount(target, id) == MountInfo(target, "cache", Scratch, <<>>, id, "")

\* llb.AddSecret(target, llb.SecretID(id))
AddSecret(target, id) == MountInfo(target, "secret", Scratch, <<>>, <<>>, id)

\* The index of the first mount of ms at target, 0 when there is none.
FirstAt(ms, target) ==
  LET I == {i \in 1..Len(ms) : ms[i].target = target}
  IN  IF I = {} THEN 0 ELSE CHOOSE i \in I : \A j \in I : i <= j

\* ExecState.GetMount(target): the output of the Run node's first mount at
\* target.
GetMount(st, target) ==
  [op |-> "mount", exec |-> st, target |-> target, index |-> FirstAt(st.mounts, target)]

\* Ref() with the tag looked at before the digest.
RefTagFirst(ref) ==
  IF ref.repository = ""
    THEN [err |-> <<"ref does not refer to a repository">>, ref |-> <<>>]
    ELSE IF ref.tag # ""
           THEN [err |-> NoErr, ref |-> <<ref.repository, ":", ref.tag>>]
           ELSE IF ref.digest # ""
                  THEN [err |-> NoErr, ref |-> <<ref.repository, "@", ref.digest>>]
                  ELSE [err |-> NoErr, ref |-> <<ref.repository, ":", "latest">>]

\* Ref() without the check that the ref has a repository.
RefUnchecked(ref) ==
  IF ref.digest # ""
    THEN [err |-> NoErr, ref |-> <<ref.repository, "@", ref.digest>>]
    ELSE IF ref.tag # ""
           THEN [err |-> NoErr, ref |-> <<ref.repository, ":", ref.tag>>]
           ELSE [err |-> NoErr, ref |-> <<ref.repository, ":", "latest">>]

(***************************************************************************)
(* ThunkImageRef.Ref: the reference string, as its parts.                  *)
(***************************************************************************)
Ref(ref) ==
  IF ref.repository = ""
    THEN [err |-> <<"ref does not refer to a repository">>, ref |-> <<>>]
    ELSE IF ref.digest # ""
           THEN [err |-> NoErr, ref |-> <<ref.repository, "@", ref.digest>>]
           ELSE IF ref.tag # ""
                  THEN [err |-> NoErr, ref |-> <<ref.repository, ":", ref.tag>>]
                  ELSE [err |-> NoErr, ref |-> <<ref.repository, ":", "latest">>]

(***************************************************************************)
(* The status proxy's error wrap.                                          *)
(***************************************************************************)
\* statusProxy.NiceError(msg, err)
NiceError(msg, err) == <<"NiceError", msg>> \o err

IsNice(err) == Len(err) >= 2 /\ err[1] = "NiceError"

(***************************************************************************)
(* The builder.  b is [runtime, secrets, localDirs, outs, await]: the      *)
(* runtime ([arch, DisableCache]), the secret table (a set of [name,       *)
(* value], one per name), the local-directory table (a set of context      *)
(* directories), and, for the solves that translation itself issues (the   *)
(* get-config solve of an OCI archive), outs: the outcomes of the solves   *)
(* already made, in the order translation issues them.  A translation that *)
(* reaches a solve with no outcome left returns kind "await", with the     *)
(* options of that solve in b.await.                                       *)
(*                                                                         *)
(* A result is [kind |-> "ok", ...], [kind |-> "err", err, b] or           *)
(* [kind |-> "await", err, b].                                             *)
(***************************************************************************)
NoAwait == [allowed |-> {}, localDirs |-> {}, secrets |-> {}]

\* runtime.newBuilder(resolver)
newBuilder(runtime, outs) ==
  [runtime |-> runtime, secrets |-> {}, localDirs |-> {}, outs |-> outs,
   await |-> NoAwait]

Err(err, b) == [kind |-> "err", err |-> err, b |-> b]

\* return ..., fmt.Errorf("<msg>: %w", err)
WrapFail(msg, r) == IF r.kind = "err" THEN Err(Wrap(msg, r.err), r.b) ELSE r

\* b.secrets[id] = value
SetSecret(secrets, id, value) ==
  {e \in secrets : e.name # id} \cup {[name |-> id, value |-> value]}

\* NewCommand(thunk): the command payload; its Mounts are the thunk's mounts
\* in order.
NewCommand(t) == [Mounts |-> t.mounts]

\* builder.shim
shim(b) ==
  IF b.runtime.arch \in allShims
    THEN [err |-> NoErr, st |-> File(Scratch, [name |-> "load bass shim"])]
    ELSE [err |-> <<"no shim found">>, st |-> Scratch]

\* The entitlements a solve is allowed, from needsInsecure.
allowedEntitlements(needsInsecure) ==
  IF needsInsecure THEN {"security.insecure"} ELSE {}

\* builder.llb, the target of a mount: absolute as it is, else under the
\* work directory.
mountTargetPath(mount) ==
  IF mount.target.abs THEN mount.target.path ELSE JoinAbs(workDir, mount.target.path)

\* builder.llb: needsInsecure after the thunk's own insecure flag.
insecureOfThunk(needsInsecure, t) == IF t.insecure THEN TRUE ELSE needsInsecure

\* Variant of insecureAfterMount: needsInsecure is the last mount's alone.
insecureOfLastMount(needsInsecure, ni) == ni

\* builder.llb, in the loop over the mounts: needsInsecure after a mount.
insecureAfterMount(needsInsecure, ni) == IF ni THEN TRUE ELSE needsInsecure

\* builder.llb, in the loop over the mounts: sourcePath after a mount.
sourcePathAfterMount(sourcePath, targetPath, sp) ==
  IF targetPath = workDir THEN sp ELSE sourcePath

\* builder.llb, in the loop over the mounts: remountedWorkdir after a mount.
remountedAfterMount(remountedWorkdir, targetPath) ==
  IF targetPath = workDir THEN TRUE ELSE remountedWorkdir

\* builder.llb, after the loop: the base workdir mount, when no mount
\* targeted the work directory.
baseWorkdirMount(remountedWorkdir, runState, sourcePath) ==
  IF ~remountedWorkdir THEN <<AddMount(workDir, runState, sourcePath)>> ELSE <<>>

\* builder.llb: the environment addition that asks for stdout capture.
captureEnv(captureStdout) ==
  IF captureStdout THEN <<[name |-> "_BASS_OUTPUT", value |-> outputFile]>> ELSE <<>>

(***************************************************************************)
(* The translator: builder.llb, builder.imageRef,                          *)
(* builder.unpackImageArchive and builder.initializeMount.                 *)
(***************************************************************************)
RECURSIVE llb(_, _, _), imageRef(_, _), unpackImageArchive(_, _, _),
          initializeMount(_, _, _), mountLoop(_, _, _)

\* One environment addition for every entry of the Env array.
configEnvAll(env) ==
  [i \in 1..Len(env) |->
     [name |-> env[i].key, value |-> IF env[i].eq THEN env[i].val ELSE ""]]

\* The environment additions of an image config's Env array: one for each
\* entry with a non-empty key, in order.
RECURSIVE configEnv(_)
configEnv(env) ==
  IF env = <<>> THEN <<>>
  ELSE LET e == Head(env)
           add == IF e.key # ""
                    THEN <<[name |-> e.key, value |-> IF e.eq THEN e.val ELSE ""]>>
                    ELSE <<>>
       IN  add \o configEnv(Tail(env))

\* builder.unpackImageArchive
unpackImageArchive(b, thunkPath, tag) ==
  LET sh == shim(b) IN
  IF sh.err # NoErr THEN Err(sh.err, b)
  ELSE
  LET t == llb(b, thunkPath.thunk, FALSE) IN
  IF t.kind # "ok" THEN WrapFail("thunk llb", t)
  ELSE
  LET sourcePath == Join(t.sp, thunkPath.path)
      tar == AddMount(<<"image.tar">>, GetMount(t.st, workDir), sourcePath)
      unpackSt == [op |-> "run", base |-> Scratch,
                   args |-> <<"/shim", "unpack", "/image.tar", tag, "/rootfs">>,
                   mounts |-> <<AddMount(<<"shim">>, sh.st, <<"run">>), tar,
                                AddMount(<<"rootfs">>, Scratch, <<>>)>>]
      image == GetMount(unpackSt, <<"rootfs">>)
      allowed == allowedEntitlements(t.ni)
  IN  IF t.b.outs = <<>>
        THEN [kind |-> "await", err |-> NoErr,
              b |-> [t.b EXCEPT !.await = [allowed |-> allowed,
                                           localDirs |-> t.b.localDirs,
                                           secrets |-> t.b.secrets]]]
        ELSE LET out == Head(t.b.outs)
                 b2 == [t.b EXCEPT !.outs = Tail(t.b.outs)]
             IN  IF ~out.ok
                   THEN Err(NiceError("oci unpack failed", out.err), b2)
                   ELSE [kind |-> "ok",
                         st |-> [op |-> "env", base |-> image, env |-> configEnv(out.env)],
                         run |-> Scratch, sp |-> <<>>, ni |-> t.ni, b |-> b2]

\* builder.imageRef: the rootfs state, the base workdir state, the base
\* workdir source sub and needsInsecure.
imageRef(b, image) ==
  CASE image.kind = "none" ->
         [kind |-> "ok", st |-> Scratch, run |-> Scratch, sp |-> <<>>, ni |-> FALSE, b |-> b]
    [] image.kind = "ref" /\ image.ref.file.kind = "file" ->
         unpackImageArchive(b, image.ref.file, image.ref.tag)
    [] image.kind = "ref" /\ image.ref.file.kind # "file" ->
         LET r == Ref(image.ref)
         IN  IF r.err # NoErr THEN Err(r.err, b)
             ELSE [kind |-> "ok", st |-> Image(r.ref, b.runtime.arch), run |-> Scratch,
                   sp |-> <<>>, ni |-> FALSE, b |-> b]
    [] image.kind = "thunk" ->
         LET t == llb(b, image.thunk, FALSE)
         IN  IF t.kind # "ok" THEN WrapFail("image thunk llb", t)
             ELSE [kind |-> "ok", st |-> [op |-> "rootfs", exec |-> t.st],
                   run |-> GetMount(t.st, workDir), sp |-> t.sp, ni |-> t.ni, b |-> t.b]
    [] OTHER -> Err(<<"unsupported image type">>, b)

\* builder.initializeMount: the mount, its source path and needsInsecure.
initializeMount(b, source, targetPath) ==
  CASE source.kind = "thunk" ->
         LET t == llb(b, source.thunk, FALSE)
         IN  IF t.kind # "ok" THEN WrapFail("thunk llb", t)
             ELSE LET sourcePath == Join(t.sp, source.path)
                  IN  [kind |-> "ok",
                       mountOpt |-> AddMount(targetPath, GetMount(t.st, workDir), sourcePath),
                       sp |-> sourcePath, ni |-> t.ni, b |-> t.b]
    [] source.kind = "host" ->
         LET sourcePath == source.path
         IN  [kind |-> "ok",
              mountOpt |-> AddMount(targetPath,
                                    File(Scratch, [name |-> "copy", from |-> Local(source.context),
                                                   src |-> sourcePath, dest |-> sourcePath]),
                                    sourcePath),
              sp |-> sourcePath, ni |-> FALSE,
              b |-> [b EXCEPT !.localDirs = @ \cup {source.context}]]
    [] source.kind = "cache" ->
         [kind |-> "ok", mountOpt |-> AddCacheMount(targetPath, source.path),
          sp |-> <<>>, ni |-> FALSE, b |-> b]
    [] source.kind = "secret" ->
         [kind |-> "ok", mountOpt |-> AddSecret(targetPath, source.name),
          sp |-> <<>>, ni |-> FALSE,
          b |-> [b EXCEPT !.secrets = SetSecret(@, source.name, source.value)]]
    [] OTHER -> Err(<<"unhandled mount source">>, b)

\* builder.llb, the loop over cmd.Mounts from the i-th mount on.  acc is
\* [kind, mounts, remountedWorkdir, sourcePath, needsInsecure, b].
mountLoop(acc, mounts, i) ==
  IF i > Len(mounts) THEN acc
  ELSE LET mount == mounts[i]
           targetPath == mountTargetPath(mount)
           im == initializeMount(acc.b, mount.source, targetPath)
       IN  IF im.kind # "ok" THEN im
           ELSE mountLoop(
                  [kind |-> "ok",
                   mounts |-> Append(acc.mounts, im.mountOpt),
                   remountedWorkdir |-> remountedAfterMount(acc.remountedWorkdir, targetPath),
                   sourcePath |-> sourcePathAfterMount(acc.sourcePath, targetPath, im.sp),
                   needsInsecure |-> insecureAfterMount(acc.needsInsecure, im.ni),
                   b |-> im.b],
                  mounts, i + 1)

\* builder.llb: the Run node (st), workdirSourceSub (sp) and needsInsecure
\* (ni) of a thunk.
llb(b, t, captureStdout) ==
  LET cmd == NewCommand(t)
      img == imageRef(b, t.image)
  IN
  IF img.kind # "ok" THEN img
  ELSE
  LET id == SHA256(t)
      sh == shim(img.b)
  IN
  IF sh.err # NoErr THEN Err(sh.err, img.b)
  ELSE
  LET std == <<AddTmpfs(<<"tmp">>), AddTmpfs(<<"dev", "shm">>),
               AddMount(ioDir, File(Scratch, [name |-> "mount command json"]), <<>>),
               AddMount(shimExePath, sh.st, <<"run">>)>>
      loop == mountLoop([kind |-> "ok", mounts |-> std, remountedWorkdir |-> FALSE,
                         sourcePath |-> img.sp,
                         needsInsecure |-> insecureOfThunk(img.ni, t), b |-> img.b],
                        cmd.Mounts, 1)
  IN
  IF loop.kind # "ok" THEN loop
  ELSE [kind |-> "ok",
        st |-> [op |-> "run", base |-> img.st,
                args |-> <<"/bass/shim", "run", "/bass/io/in">>,
                hostname |-> id,
                env |-> captureEnv(captureStdout),
                insecure |-> t.insecure,
                ignoreCache |-> loop.b.runtime.DisableCache,
                mounts |-> loop.mounts
                           \o baseWorkdirMount(loop.remountedWorkdir, img.run,
                                               loop.sourcePath)],
        sp |-> loop.sourcePath, ni |-> loop.needsInsecure, b |-> loop.b]

(***************************************************************************)
(* The inputs of the model.                                                *)
(***************************************************************************)
\* The runtimes: one whose workers' architecture has a shim, one whose
\* architecture has none.
Runtimes == {[arch |-> "amd64", DisableCache |-> FALSE],
             [arch |-> "riscv64", DisableCache |-> TRUE]}

\* The outcomes of a get-config solve: the config read, or the error.
UnpackOutcomes ==
  {[ok |-> TRUE, err |-> NoErr,
    env |-> <<[key |-> "PATH", eq |-> TRUE, val |-> "/opt/bin"]>>],
   [ok |-> FALSE, err |-> <<"solve failed">>, env |-> <<>>]}

\* The thunks that the thunks of the model refer to.
LeafPlain == Thunk(RepoRef("alpine", "3.19", ""), FALSE, <<>>)
LeafInsecure == Thunk(RepoRef("alpine", "", ""), TRUE, <<>>)
MidRemount ==
  Thunk(NoImage, FALSE, <<Mount(HostSource("ctx", <<"x">>), Rel(<<".">>))>>)
MidNested == Thunk(ParentImage(LeafInsecure), FALSE, <<>>)

Images ==
  {NoImage, EmptyImage, RepoRef("alpine", "", "sha256:d"),
   ParentImage(MidRemount), ParentImage(MidNested),
   FileRef(LeafPlain, <<"image.tar">>, "v2"),
   FileRef(LeafInsecure, <<"image.tar">>, "v2")}

Sources ==
  {HostSource("ctx", <<"h">>), CacheSource(<<"k">>), SecretSource("tok", "xyz"),
   FsSource("fs", <<"f">>), ThunkSource(LeafInsecure, <<"y">>),
   ThunkSource(MidRemount, <<"y">>)}

Targets == {Rel(<<".">>), Rel(<<"a">>), Abs(<<"bass", "work", "a">>)}

Mounts == {Mount(s, t) : s \in Sources, t \in Targets}

SeqsUpTo(S, n) == UNION {[1..k -> S] : k \in 0..n}

Thunks ==
  {Thunk(i, ins, ms) : i \in Images, ins \in BOOLEAN, ms \in SeqsUpTo(Mounts, MaxMounts)}

(***************************************************************************)
(* SpecLLB: the translation of a thunk, as the pass-1 callback of          *)
(* Buildkit.build runs it: a fresh builder, then builder.llb.  The         *)
(* outcomes of the solves translation issues are drawn with the call.      *)
(***************************************************************************)
NoRes == [kind |-> "none"]
NoOp == [kind |-> "none"]
NoRet == [returned |-> FALSE, err |-> NoErr]

NoPrune == [pc |-> "none"]
NoCall == [fn |-> "none"]

Idle ==
  /\ op = NoOp
  /\ pc = "idle"
  /\ ret = NoRet
  /\ tmp = "none"
  /\ w = <<>>
  /\ bld = [kind |-> "none"]
  /\ sol = <<>>
  /\ wk = <<>>
  /\ wg = <<>>
  /\ prog = <<>>
  /\ rec = <<>>
  /\ imageRef0 = [kind |-> "none"]

InitLLB ==
  /\ thunk \in Thunks
  /\ res = NoRes
  /\ Idle
  /\ prune = NoPrune
  /\ call = NoCall

\* The outcomes of the solves of one translation: translation issues at
\* most one solve per archive image, and a thunk of the model has at most
\* one archive image.
OutcomeSeqs == {<<o>> : o \in UnpackOutcomes}

Translate ==
  /\ res = NoRes
  /\ \E rt \in Runtimes, captureStdout \in BOOLEAN, outs \in OutcomeSeqs :
       res' = [kind |-> "done", runtime |-> rt, captureStdout |-> captureStdout,
               outs |-> outs, r |-> llb(newBuilder(rt, outs), thunk, captureStdout)]
  /\ UNCHANGED <<prune, call, thunk, op, pc, ret, tmp, w, bld, sol, wk, wg, prog, rec, imageRef0>>

NextLLB == Translate

SpecLLB == InitLLB /\ [][NextLLB]_vars

(***************************************************************************)
(* Spec: one top-level operation of the Buildkit runtime, with its solves, *)
(* the solver and the status-consumer workers running concurrently.        *)
(*                                                                         *)
(* Solve 1 is the pass-1 Build of Buildkit.build (or the Build of          *)
(* Resolve), solve 2 the pass-2 Solve, solve 3 the Build of                *)
(* builder.unpackImageArchive.  A status proxy is named by the first solve *)
(* it serves: proxy 1 is the proxy of build or Resolve, proxy 3 the proxy  *)
(* of unpackImageArchive.                                                  *)
(***************************************************************************)
BuildSolves == {1, 2}
UnpackSolves == {3}
SolveIds == BuildSolves \cup UnpackSolves

proxyOf(s) == IF s \in BuildSolves THEN 1 ELSE s

\* The thunks the operations are run on.
OpThunks ==
  {LeafPlain, LeafInsecure,
   Thunk(ParentImage(MidNested), FALSE, <<>>),
   Thunk(NoImage, FALSE,
         <<Mount(ThunkSource(LeafInsecure, <<"y">>), Rel(<<"a">>)),
           Mount(ThunkSource(MidRemount, <<"y">>), Rel(<<"b">>))>>),
   Thunk(NoImage, FALSE, <<Mount(ThunkSource(MidRemount, <<"y">>), Rel(<<".">>))>>),
   Thunk(FileRef(LeafInsecure, <<"image.tar">>, "v2"), FALSE, <<>>),
   Thunk(FileRef(LeafPlain, <<"image.tar">>, "v2"), FALSE,
         <<Mount(SecretSource("tok", "xyz"), Abs(<<"run", "secrets", "tok">>))>>),
   Thunk(RepoRef("alpine", "", ""), FALSE,
         <<Mount(HostSource("ctx", <<"h">>), Rel(<<"src">>)),
           Mount(SecretSource("tok", "xyz"), Abs(<<"run", "secrets", "tok">>))>>),
   Thunk(RepoRef("alpine", "", ""), TRUE, <<Mount(FsSource("fs", <<"f">>), Rel(<<"a">>))>>)}

\* The operations: Run with a writer or with io.Discard, Read, Export and
\* ExportPath of a directory of the thunk's output.
BuildOps ==
  {[kind |-> k, discard |-> d, path |-> <<"out">>, runtime |-> rt] :
     k \in {"Run", "Read", "Export", "ExportPath"}, d \in BOOLEAN, rt \in Runtimes}

Ops == {o \in BuildOps : o.discard => o.kind = "Run"}

\* The thunks every operation is run on: one with an OCI-archive image and
\* a secret, one with a repository image, a host path and a secret.  The
\* other thunks are run by Run with a writer.
CoreThunks ==
  {t \in OpThunks :
     /\ \E i \in 1..Len(t.mounts) : t.mounts[i].source.kind = "secret"}

OpInputs ==
  {[op |-> o, thunk |-> t] : o \in Ops, t \in CoreThunks}
  \cup {[op |-> o, thunk |-> t] :
          o \in {x \in Ops : x.kind = "Run" /\ ~x.discard}, t \in OpThunks}

ResolveOps ==
  {[kind |-> "Resolve", discard |-> FALSE, path |-> <<>>, runtime |-> rt] :
     rt \in {r \in Runtimes : r.arch \in allShims}}

\* The image refs Resolve is called on: a repository with and without a
\* tag, and an OCI archive file.
ResolveRefs ==
  {RepoRef("alpine", "", "").ref, RepoRef("alpine", "3.19", "").ref,
   FileRef(LeafPlain, <<"image.tar">>, "v2").ref}

NoMsg == [solve |-> 0, n |-> 0]
NoDef == [kind |-> "none"]
NoOpts == [kind |-> "none"]
NoRefRet == [kind |-> "none"]

SolveIdle ==
  [state |-> "none", nsent |-> 0, nexp |-> 0, err |-> NoErr, opts |-> NoOpts,
   out |-> [ok |-> FALSE, err |-> NoErr, env |-> <<>>]]

BldInit ==
  [outs |-> <<>>, cb |-> "none", cbErr |-> NoErr, needsInsecure |-> FALSE,
   def |-> NoDef, secrets |-> {}, localDirs |-> {}, allowed |-> {}, err |-> NoErr,
   wraps |-> [s \in SolveIds |-> [taken |-> FALSE, prog |-> <<>>]]]

Init ==
  /\ \/ /\ \E i \in OpInputs : op = i.op /\ thunk = i.thunk
        /\ imageRef0 = NoRefRet
     \/ op \in ResolveOps /\ thunk = LeafPlain /\ imageRef0 \in ResolveRefs
  /\ res = NoRes
  /\ pc = "start"
  /\ ret = [returned |-> FALSE, err |-> NoErr, ref |-> NoRefRet]
  /\ tmp = [state |-> "none", out |-> <<>>]
  /\ w = <<>>
  /\ bld = BldInit
  /\ sol = [s \in SolveIds |-> SolveIdle]
  /\ wk = [s \in SolveIds |-> [pc |-> "none", cur |-> NoMsg]]
  /\ wg = [s \in SolveIds |-> 0]
  /\ prog = [s \in SolveIds |-> <<>>]
  /\ rec = <<>>
  /\ prune = NoPrune
  /\ call = NoCall

(***************************************************************************)
(* The status proxy.                                                       *)
(***************************************************************************)
\* forwardStatus(rec): a proxy with a fresh WaitGroup and progress model.
forwardStatus == [wg |-> 0, prog |-> <<>>]

\* statusProxy.Writer: wg.Add(1), and the worker started, about to receive
\* from the new channel.
Writer(n) == n + 1

WorkerStarted(wks, s) == [wks EXCEPT ![s] = [pc |-> "recv", cur |-> NoMsg]]

\* Variant of WriteStatus: the status is not written.
WriteStatusDropped(p, gstatus) == p

\* proxy.prog.WriteStatus(gstatus)
WriteStatus(p, gstatus) == Append(p, gstatus)

\* Variant of Record: the newest status is put first.
RecordFirst(r, gstatus) == <<gstatus>> \o r

\* rec.Record(gstatus)
Record(r, gstatus) == Append(r, gstatus)

\* Variant of WaitReturns: Wait does not wait.
WaitSkipped(n) == TRUE

\* statusProxy.Wait returns: wg.Wait() with the counter at n.
WaitReturns(n) == n = 0

\* statusProxy.proxy: the worker of solve s writes the status it received to
\* the progress model.
WorkerWrite(s) ==
  /\ wk[s].pc = "write"
  /\ prog' = [prog EXCEPT ![proxyOf(s)] = WriteStatus(@, wk[s].cur)]
  /\ wk' = [wk EXCEPT ![s].pc = "record"]
  /\ UNCHANGED <<prune, call, thunk, res, op, pc, ret, tmp, w, bld, sol, wg, rec, imageRef0>>

\* statusProxy.proxy: the worker of solve s records the status, and loops.
WorkerRecord(s) ==
  /\ wk[s].pc = "record"
  /\ rec' = Record(rec, wk[s].cur)
  /\ wk' = [wk EXCEPT ![s] = [pc |-> "recv", cur |-> NoMsg]]
  /\ UNCHANGED <<prune, call, thunk, res, op, pc, ret, tmp, w, bld, sol, wg, prog, imageRef0>>

\* statusProxy.proxy and Writer: the worker of solve s finds the channel
\* closed, leaves the loop, and wg.Done() runs.
WorkerExit(s) ==
  /\ wk[s].pc = "recv"
  /\ sol[s].state = "returned"
  /\ wk' = [wk EXCEPT ![s].pc = "done"]
  /\ wg' = [wg EXCEPT ![proxyOf(s)] = @ - 1]
  /\ UNCHANGED <<prune, call, thunk, res, op, pc, ret, tmp, w, bld, sol, prog, rec, imageRef0>>

(***************************************************************************)
(* The solver (Client.Build, Client.Solve), as far as the runtime sees it. *)
(***************************************************************************)
SolveErr == <<"solve failed">>

\* The i-th chunk the solver exports.
Chunk(i) == [chunk |-> i]

\* build called with captureStdout by every operation.
captureAlways(o) == TRUE

\* captureStdout, as each operation passes it to build.
captureStdout(o) ==
  CASE o.kind = "Run" -> ~o.discard
    [] o.kind = "Read" -> TRUE
    [] OTHER -> FALSE

\* The transform each operation passes to build.
transform(o, st, sp) ==
  CASE o.kind \in {"Run", "Read"} -> GetMount(st, ioDir)
    [] o.kind = "Export" -> st
    [] OTHER -> File(Scratch, [name |-> "copy", from |-> GetMount(st, workDir),
                               src |-> Join(sp, o.path), dest |-> <<".">>])

\* The export entry each operation passes to build.
exports(o) ==
  CASE o.kind \in {"Run", "Read"} -> [Type |-> "local", Out |-> "tmp"]
    [] o.kind = "Export" -> [Type |-> "oci", Out |-> "w"]
    [] OTHER -> [Type |-> "tar", Out |-> "w"]

\* The number of chunks a complete export of the operation has: an archive
\* for Export and ExportPath, the captured stdout for Run and Read.
ExportSize(o) ==
  IF o.kind \in {"Export", "ExportPath"} \/ captureStdout(o) THEN ExportChunks ELSE 0

\* The solver sends a status on the channel of solve s; the channel is
\* unbuffered, so the worker receives it in the same step.
SolverStatus(s) ==
  /\ sol[s].state = "running"
  /\ sol[s].nsent < MaxStatus
  /\ wk[s].pc = "recv"
  /\ sol' = [sol EXCEPT ![s].nsent = @ + 1]
  /\ wk' = [wk EXCEPT ![s] = [pc |-> "write", cur |-> [solve |-> s, n |-> sol[s].nsent + 1]]]
  /\ UNCHANGED <<prune, call, thunk, res, op, pc, ret, tmp, w, bld, wg, prog, rec, imageRef0>>

\* The solver exports a chunk of the pass-2 result: to the writer the
\* Output function of Export and ExportPath hands it, or into the output
\* directory of Run and Read.
SolverExport ==
  /\ sol[2].state = "running"
  /\ sol[2].nexp < ExportSize(op)
  /\ sol' = [sol EXCEPT ![2].nexp = @ + 1]
  /\ IF sol[2].opts.Exports.Out = "w"
       THEN w' = Append(w, Chunk(sol[2].nexp + 1)) /\ tmp' = tmp
       ELSE tmp' = [tmp EXCEPT !.out = Append(@, Chunk(sol[2].nexp + 1))] /\ w' = w
  /\ UNCHANGED <<prune, call, thunk, res, op, pc, ret, bld, wk, wg, prog, rec, imageRef0>>

\* The solver ends solve s: it closes the status channel and returns.  A
\* Build returns its callback's error; any solve can fail by itself (a
\* failing vertex, a cancelled context); pass 2 succeeds once the export is
\* complete; the get-config solve succeeds with the image's config.
SolverFinish(s) ==
  /\ sol[s].state = "running"
  /\ \/ /\ s = 1
        /\ pc \in {"pass1", "resolve_wait"}
        /\ \E ok \in BOOLEAN :
             sol' = [sol EXCEPT ![s].state = "returned",
                                ![s].err = IF bld.cbErr # NoErr THEN bld.cbErr
                                           ELSE IF ok THEN NoErr ELSE SolveErr]
     \/ /\ s = 2
        /\ \E ok \in BOOLEAN :
             /\ ok => sol[s].nexp = ExportSize(op)
             /\ sol' = [sol EXCEPT ![s].state = "returned",
                                   ![s].err = IF ok THEN NoErr ELSE SolveErr]
     \/ /\ s \in UnpackSolves
        /\ \E out \in UnpackOutcomes :
             sol' = [sol EXCEPT ![s].state = "returned", ![s].err = out.err, ![s].out = out]
  /\ UNCHANGED <<prune, call, thunk, res, op, pc, ret, tmp, w, bld, wk, wg, prog, rec, imageRef0>>

(***************************************************************************)
(* The operations.  pc is the position of the calling thread.              *)
(***************************************************************************)
\* Client.Build or Client.Solve called for solve s with the options opts
\* and the channel of a new statusProxy.Writer(): the solve is running, the
\* worker started.
Submit(s, opts) ==
  /\ sol' = [sol EXCEPT ![s] = [SolveIdle EXCEPT !.state = "running", !.opts = opts]]
  /\ wk' = WorkerStarted(wk, s)

\* SolveOpt: the options of a solve.
SolveOpt(localDirs, allowed, secrets, exps, def) ==
  [LocalDirs |-> localDirs, AllowedEntitlements |-> allowed, secrets |-> secrets,
   Exports |-> exps, def |-> def]

NoExports == [Type |-> "none", Out |-> "none"]

\* Variant of failed: build goes on whatever the error.
neverFailed(err) == FALSE

\* build: whether the error of a Build or Solve makes build return.
failed(err) == err # NoErr

\* statusProxy.NiceError called on the error of solve s: build's error is
\* the wrap, and wraps[s] keeps the progress model as it is when the wrap is
\* taken.
Wrapped(b, s, msg) ==
  [b EXCEPT !.err = NiceError(msg, sol[s].err),
            !.wraps[s] = [taken |-> TRUE, prog |-> prog[proxyOf(s)]]]

\* Run, Read: the scratch directory is made.
RunStart ==
  /\ pc = "start"
  /\ op.kind \in {"Run", "Read"}
  /\ \E ok \in BOOLEAN :
       IF ok
         THEN /\ tmp' = [tmp EXCEPT !.state = "exists"]
              /\ pc' = "build"
              /\ ret' = ret
         ELSE /\ tmp' = tmp
              /\ pc' = "done"
              /\ ret' = [ret EXCEPT !.returned = TRUE, !.err = <<"mkdir temp failed">>]
  /\ UNCHANGED <<prune, call, thunk, res, op, w, bld, sol, wk, wg, prog, rec, imageRef0>>

\* build: the status proxy is installed and the pass-1 Build called.
BuildStart ==
  /\ \/ pc = "build"
     \/ pc = "start" /\ op.kind \in {"Export", "ExportPath"}
  /\ wg' = [wg EXCEPT ![1] = Writer(forwardStatus.wg)]
  /\ prog' = [prog EXCEPT ![1] = forwardStatus.prog]
  /\ Submit(1, SolveOpt({}, {}, {}, NoExports, NoDef))
  /\ pc' = "callback"
  /\ UNCHANGED <<prune, call, thunk, res, op, ret, tmp, w, bld, rec, imageRef0>>

\* build: the callback of the pass-1 Build.  Translation either reaches the
\* get-config solve of an OCI archive, which unpackImageArchive submits
\* under a status proxy of its own, or fails, or yields the graph, whose
\* tables the callback keeps and whose transform it marshals.
PassOneCallback ==
  /\ pc = "callback"
  /\ LET r == llb(newBuilder(op.runtime, bld.outs), thunk, captureStdout(op)) IN
       CASE r.kind = "await" ->
              /\ wg' = [wg EXCEPT ![3] = Writer(forwardStatus.wg)]
              /\ prog' = [prog EXCEPT ![3] = forwardStatus.prog]
              /\ Submit(3, SolveOpt(r.b.await.localDirs, r.b.await.allowed,
                                    r.b.await.secrets, NoExports, NoDef))
              /\ pc' = "unpack"
              /\ bld' = bld
         [] r.kind = "err" ->
              /\ bld' = [bld EXCEPT !.cb = "err", !.cbErr = r.err]
              /\ pc' = "pass1"
              /\ UNCHANGED <<wg, prog, sol, wk>>
         [] OTHER ->
              /\ \E marshalOk \in BOOLEAN :
                   bld' = [bld EXCEPT
                             !.cb = IF marshalOk THEN "ok" ELSE "err",
                             !.needsInsecure = r.ni,
                             !.allowed = allowedEntitlements(r.ni),
                             !.localDirs = r.b.localDirs,
                             !.secrets = r.b.secrets,
                             !.def = IF marshalOk
                                       THEN [kind |-> "def", root |-> transform(op, r.st, r.sp)]
                                       ELSE NoDef,
                             !.cbErr = IF marshalOk THEN NoErr ELSE <<"marshal failed">>]
              /\ pc' = "pass1"
              /\ UNCHANGED <<wg, prog, sol, wk>>
  /\ UNCHANGED <<prune, call, thunk, res, op, ret, tmp, w, rec, imageRef0>>

\* unpackImageArchive: its Build returned, and it waits for its proxy.
AfterUnpack ==
  /\ pc = "unpack"
  /\ sol[3].state = "returned"
  /\ bld' = IF failed(sol[3].err) THEN [Wrapped(bld, 3, "oci unpack failed") EXCEPT !.err = NoErr]
            ELSE bld
  /\ pc' = "unpack_wait"
  /\ UNCHANGED <<prune, call, thunk, res, op, ret, tmp, w, sol, wk, wg, prog, rec, imageRef0>>

\* unpackImageArchive: the deferred statusProxy.Wait() returns, and
\* translation goes on with the outcome of the solve.
UnpackReturn ==
  /\ pc = "unpack_wait"
  /\ WaitReturns(wg[3])
  /\ bld' = [bld EXCEPT !.outs = Append(@, sol[3].out)]
  /\ pc' = "callback"
  /\ UNCHANGED <<prune, call, thunk, res, op, ret, tmp, w, sol, wk, wg, prog, rec, imageRef0>>

\* build: the pass-1 Build returned.  On an error build returns the wrapped
\* error; else it submits the pass-2 Solve with what the callback kept and
\* the operation's exports.
AfterPass1 ==
  /\ pc = "pass1"
  /\ sol[1].state = "returned"
  /\ IF failed(sol[1].err)
       THEN /\ bld' = Wrapped(bld, 1, "llb build failed")
            /\ pc' = "build_wait"
            /\ UNCHANGED <<sol, wk, wg>>
       ELSE /\ wg' = [wg EXCEPT ![1] = Writer(@)]
            /\ Submit(2, SolveOpt(bld.localDirs, bld.allowed, bld.secrets, exports(op), bld.def))
            /\ pc' = "pass2"
            /\ bld' = bld
  /\ UNCHANGED <<prune, call, thunk, res, op, ret, tmp, w, prog, rec, imageRef0>>

\* build: the pass-2 Solve returned.
AfterPass2 ==
  /\ pc = "pass2"
  /\ sol[2].state = "returned"
  /\ bld' = IF failed(sol[2].err) THEN Wrapped(bld, 2, "build failed") ELSE bld
  /\ pc' = "build_wait"
  /\ UNCHANGED <<prune, call, thunk, res, op, ret, tmp, w, sol, wk, wg, prog, rec, imageRef0>>

\* build: the deferred statusProxy.Wait() returns, and build returns: to
\* the caller of Export and ExportPath, into Run and Read.
BuildReturn ==
  /\ pc = "build_wait"
  /\ WaitReturns(wg[1])
  /\ IF op.kind \in {"Run", "Read"}
       THEN pc' = "built" /\ ret' = ret
       ELSE pc' = "done" /\ ret' = [ret EXCEPT !.returned = TRUE, !.err = bld.err]
  /\ UNCHANGED <<prune, call, thunk, res, op, tmp, w, bld, sol, wk, wg, prog, rec, imageRef0>>

\* io.Copy(w, response): the n chunks that reach the writer before the copy
\* ends, and the error when it ends early.
Copy(out, n) ==
  [w |-> SubSeq(out, 1, n),
   err |-> IF n < Len(out) THEN <<"read response", "copy failed">> ELSE NoErr]

\* Variant of RemoveAll: the directory is left.
RemoveAllSkipped(t) == t

\* The deferred os.RemoveAll(tmp).
RemoveAll(t) == [t EXCEPT !.state = "removed"]

\* Run, Read: after build.  An error of build is returned; else the output
\* file, when the export made one, is copied to the writer.
RunAfterBuild ==
  /\ pc = "built"
  /\ IF failed(bld.err)
       THEN /\ ret' = [ret EXCEPT !.err = bld.err]
            /\ w' = w
       ELSE IF tmp.out = <<>>
              THEN UNCHANGED <<ret, w>>
              ELSE \E n \in 0..Len(tmp.out) :
                     /\ w' = w \o Copy(tmp.out, n).w
                     /\ ret' = [ret EXCEPT !.err = Copy(tmp.out, n).err]
  /\ pc' = "cleanup"
  /\ UNCHANGED <<prune, call, thunk, res, op, tmp, bld, sol, wk, wg, prog, rec, imageRef0>>

\* Run, Read: the deferred os.RemoveAll(tmp) runs and the operation returns.
RunReturn ==
  /\ pc = "cleanup"
  /\ tmp' = RemoveAll(tmp)
  /\ ret' = [ret EXCEPT !.returned = TRUE]
  /\ pc' = "done"
  /\ UNCHANGED <<prune, call, thunk, res, op, w, bld, sol, wk, wg, prog, rec, imageRef0>>

\* Resolve: the ref is taken and normalized, the status proxy installed and
\* the Build called.
ResolveStart ==
  /\ pc = "start"
  /\ op.kind = "Resolve"
  /\ LET r == Ref(imageRef0) IN
       \E normalizeOk \in BOOLEAN :
         IF r.err # NoErr \/ ~normalizeOk
           THEN /\ ret' = [ret EXCEPT !.returned = TRUE,
                                      !.err = IF r.err # NoErr THEN r.err
                                              ELSE <<"normalize ref", "invalid reference format">>]
                /\ pc' = "done"
                /\ UNCHANGED <<sol, wk, wg, prog>>
           ELSE /\ wg' = [wg EXCEPT ![1] = Writer(forwardStatus.wg)]
                /\ prog' = [prog EXCEPT ![1] = forwardStatus.prog]
                /\ Submit(1, SolveOpt({}, {}, {}, NoExports, NoDef))
                /\ pc' = "resolve_cb"
                /\ ret' = ret
  /\ UNCHANGED <<prune, call, thunk, res, op, tmp, w, bld, rec, imageRef0>>

\* Resolve: the callback of the Build resolves the image config and sets
\* the digest of the caller's ref.
ResolveCallback ==
  /\ pc = "resolve_cb"
  /\ \E ok \in BOOLEAN :
       IF ok
         THEN /\ imageRef0' = [imageRef0 EXCEPT !.digest = "sha256:d"]
              /\ bld' = [bld EXCEPT !.cb = "ok"]
         ELSE /\ imageRef0' = imageRef0
              /\ bld' = [bld EXCEPT !.cb = "err", !.cbErr = <<"resolve", "not found">>]
  /\ pc' = "resolve_wait"
  /\ UNCHANGED <<prune, call, thunk, res, op, ret, tmp, w, sol, wk, wg, prog, rec>>

\* Resolve: the Build returned.
AfterResolve ==
  /\ pc = "resolve_wait"
  /\ sol[1].state = "returned"
  /\ IF failed(sol[1].err)
       THEN /\ bld' = Wrapped(bld, 1, "resolve failed")
            /\ ret' = ret
       ELSE /\ bld' = bld
            /\ ret' = [ret EXCEPT !.ref = imageRef0]
  /\ pc' = "resolve_join"
  /\ UNCHANGED <<prune, call, thunk, res, op, tmp, w, sol, wk, wg, prog, rec, imageRef0>>

\* Resolve: the deferred statusProxy.Wait() returns, and Resolve returns.
ResolveReturn ==
  /\ pc = "resolve_join"
  /\ WaitReturns(wg[1])
  /\ ret' = [ret EXCEPT !.returned = TRUE, !.err = bld.err]
  /\ pc' = "done"
  /\ UNCHANGED <<prune, call, thunk, res, op, tmp, w, bld, sol, wk, wg, prog, rec, imageRef0>>

Next ==
  \/ RunStart
  \/ BuildStart
  \/ PassOneCallback
  \/ AfterUnpack
  \/ UnpackReturn
  \/ AfterPass1
  \/ AfterPass2
  \/ BuildReturn
  \/ RunAfterBuild
  \/ RunReturn
  \/ ResolveStart
  \/ ResolveCallback
  \/ AfterResolve
  \/ ResolveReturn
  \/ SolverExport
  \/ \E s \in SolveIds : SolverStatus(s)
  \/ \E s \in SolveIds : SolverFinish(s)
  \/ \E s \in SolveIds : WorkerWrite(s)
  \/ \E s \in SolveIds : WorkerRecord(s)
  \/ \E s \in SolveIds : WorkerExit(s)

Spec == Init /\ [][Next]_vars

(***************************************************************************)
(* Properties of the translation (SpecLLB).                                *)
(***************************************************************************)
Translated == res.kind = "done" /\ res.r.kind = "ok"

Range(f) == {f[i] : i \in DOMAIN f}

\* The thunks a thunk refers to directly: its Parent image, the producer of
\* its OCI-archive image file, the producers of its thunk-output mounts.
Referenced(t) ==
  (IF t.image.kind = "thunk" THEN {t.image.thunk} ELSE {})
  \cup (IF t.image.kind = "ref" /\ t.image.ref.file.kind = "file"
          THEN {t.image.ref.file.thunk} ELSE {})
  \cup {t.mounts[i].source.thunk :
          i \in {k \in 1..Len(t.mounts) : t.mounts[k].source.kind = "thunk"}}

\* T.insecure is set, or some thunk transitively referenced by T has it set.
RECURSIVE RequiresInsecure(_)
RequiresInsecure(t) ==
  t.insecure \/ \E c \in Referenced(t) : RequiresInsecure(c)

\* The mount mi of a Run node is the mount of the thunk's mount source.
CarriesSource(mi, source) ==
  CASE source.kind = "thunk" ->
         /\ mi.kind = "bind"
         /\ mi.source.op = "mount"
         /\ mi.source.exec.hostname = SHA256(source.thunk)
    [] source.kind = "host" ->
         /\ mi.kind = "bind"
         /\ mi.source.op = "file"
         /\ mi.source.action.from = Local(source.context)
         /\ mi.sourcePath = source.path
    [] source.kind = "cache" -> mi.kind = "cache" /\ mi.cacheId = source.path
    [] source.kind = "secret" -> mi.kind = "secret" /\ mi.secretId = source.name
    [] OTHER -> FALSE

\* The indices of the Run node's mounts at a target.
MountsAt(st, target) == {k \in 1..Len(st.mounts) : st.mounts[k].target = target}

\* C2: when two mounts of the thunk resolve to the same target path, the
\* translated Run node carries exactly one mount at that target, and it is
\* the first of the two: the later one neither overrides nor duplicates it.
C2_FirstMountWins ==
  Translated =>
    LET ms == NewCommand(thunk).Mounts IN
    \A i, j \in 1..Len(ms) :
      (i < j /\ mountTargetPath(ms[i]) = mountTargetPath(ms[j])) =>
        LET at == MountsAt(res.r.st, mountTargetPath(ms[i])) IN
        /\ Cardinality(at) = 1
        /\ \A k \in at : CarriesSource(res.r.st.mounts[k], ms[i].source)

\* The source path of a mount of the thunk, as initializeMount returns it:
\* the path under the producer's workdir source sub for a thunk output, the
\* path in the context directory for a host path, empty otherwise.
MountSourcePath(b, source) ==
  CASE source.kind = "thunk" -> Join(llb(b, source.thunk, FALSE).sp, source.path)
    [] source.kind = "host" -> source.path
    [] OTHER -> <<>>

\* C3: if a mount's target resolves to the work directory, the base workdir
\* is not mounted and the returned workdirSourceSub is that mount's source
\* path; if no mount targets the work directory, the base workdir is
\* mounted at the work directory with the inherited source sub, and that
\* sub is returned unchanged.
C3_WorkdirRemount ==
  Translated =>
    LET ms == NewCommand(thunk).Mounts
        b0 == newBuilder(res.runtime, res.outs)
        base == imageRef(b0, thunk.image)
        baseMount == AddMount(workDir, base.run, base.sp)
        W == {i \in 1..Len(ms) : mountTargetPath(ms[i]) = workDir}
    IN  IF W # {}
          THEN /\ Len(res.r.st.mounts) = 4 + Len(ms)
               /\ \A i \in W : res.r.sp = MountSourcePath(b0, ms[i].source)
          ELSE /\ Len(res.r.st.mounts) = 5 + Len(ms)
               /\ res.r.st.mounts[Len(res.r.st.mounts)] = baseMount
               /\ res.r.sp = base.sp

\* C4: a thunk and the thunk that differs from it only in the bytes of its
\* secrets have the same encoding and the same fingerprint and translate to
\* the same graph; the bytes of each secret mount are in the secret table
\* under the secret's name, and the graph refers to the secret by name.
C4_SecretIndependence ==
  Translated =>
    LET other == WithSecretBytes(thunk, "other")
        r2 == llb(newBuilder(res.runtime, res.outs), other, res.captureStdout)
        ms == NewCommand(thunk).Mounts
    IN  /\ ThunkMarshalProto(thunk) = ThunkMarshalProto(other)
        /\ SHA256(thunk) = SHA256(other)
        /\ r2.kind = "ok"
        /\ r2.st = res.r.st
        /\ \A i \in 1..Len(ms) :
             ms[i].source.kind = "secret" =>
               /\ [name |-> ms[i].source.name, value |-> ms[i].source.value]
                    \in res.r.b.secrets
               /\ AddSecret(mountTargetPath(ms[i]), ms[i].source.name)
                    \in Range(res.r.st.mounts)

(***************************************************************************)
(* Properties of the operations (Spec).                                    *)
(***************************************************************************)
IsBuildOp == op.kind \in {"Run", "Read", "Export", "ExportPath"}

\* The statuses of solve s in a sequence of statuses.
Of(statuses, s) == SelectSeq(statuses, LAMBDA m : m.solve = s)

\* The first n statuses the solver sent in solve s.
Sent(s, n) == [i \in 1..n |-> [solve |-> s, n |-> i]]

\* The worker of solve s has terminated, or was never started.
Terminated(s) == wk[s].pc \in {"none", "done"}

\* build has returned to its caller.
BuildReturned == IsBuildOp /\ pc \in {"built", "cleanup", "done"} /\ sol[1].state # "none"

\* unpackImageArchive has returned to its caller.
UnpackReturned == IsBuildOp /\ bld.outs # <<>>

\* C1: when translation succeeds, the needsInsecure it returns is true iff
\* the thunk or a thunk it transitively refers to has insecure set, and
\* the pass-2 solve is allowed security.insecure exactly when it is true.
C1_Entitlement ==
  IsBuildOp =>
    /\ bld.cb = "ok" => (bld.needsInsecure <=> RequiresInsecure(thunk))
    /\ sol[2].state # "none" =>
         /\ bld.needsInsecure <=> RequiresInsecure(thunk)
         /\ "security.insecure" \in sol[2].opts.AllowedEntitlements <=> bld.needsInsecure

C1_Witness ==
  /\ IsBuildOp
  /\ sol[2].state # "none"
  /\ ~thunk.insecure
  /\ thunk.mounts # <<>>
  /\ "security.insecure" \in sol[2].opts.AllowedEntitlements

\* C5: the pass-2 solve is submitted only after the pass-1 Build returned
\* without error, with exactly the local-directory table, the secret table
\* and the entitlements of the pass-1 builder and the operation's exports;
\* if pass 1 fails, pass 2 is never submitted and the operation returns the
\* error.
C5_TwoPass ==
  IsBuildOp =>
    /\ sol[2].state # "none" =>
         /\ sol[1].state = "returned"
         /\ sol[1].err = NoErr
         /\ LET r == llb(newBuilder(op.runtime, bld.outs), thunk, captureStdout(op)) IN
              /\ r.kind = "ok"
              /\ sol[2].opts.LocalDirs = r.b.localDirs
              /\ sol[2].opts.secrets = r.b.secrets
              /\ sol[2].opts.AllowedEntitlements = allowedEntitlements(r.ni)
              /\ sol[2].opts.Exports = exports(op)
              /\ sol[2].opts.def = [kind |-> "def", root |-> transform(op, r.st, r.sp)]
    /\ (sol[1].state = "returned" /\ sol[1].err # NoErr) =>
         /\ sol[2].state = "none"
         /\ ret.returned => ret.err = <<"NiceError", "llb build failed">> \o sol[1].err

C5_Witness ==
  /\ IsBuildOp
  /\ sol[2].state = "running"
  /\ sol[2].opts.LocalDirs # {}
  /\ sol[2].opts.secrets # {}

\* C6: for each solve, the statuses recorded are the statuses the solver
\* sent, in the order it sent them, each once: all of them but the one the
\* worker is holding.
C6_InOrder ==
  IsBuildOp \/ op.kind = "Resolve" =>
    \A s \in SolveIds :
      Of(rec, s) = Sent(s, sol[s].nsent - (IF wk[s].pc \in {"write", "record"} THEN 1 ELSE 0))

C6_Witness ==
  /\ IsBuildOp
  /\ wk[1].pc = "done" /\ wk[2].pc = "done"
  /\ sol[1].nsent = MaxStatus /\ sol[2].nsent = MaxStatus
  /\ Len(rec) = 2 * MaxStatus
  /\ \E i, j \in 1..Len(rec) : i < j /\ rec[i].solve = 2 /\ rec[j].solve = 1

\* C7: Resolve, build and unpackImageArchive return only after every worker
\* started by Writer() for them has terminated.
C7_Joined ==
  /\ ret.returned => \A s \in SolveIds : Terminated(s)
  /\ BuildReturned => Terminated(1) /\ Terminated(2)
  /\ UnpackReturned => Terminated(3)

C7_Witness ==
  /\ ret.returned
  /\ ret.err # NoErr
  /\ wk[1].pc = "done" /\ wk[2].pc = "done" /\ wk[3].pc = "done"
  /\ sol[2].nsent = MaxStatus

\* The message each operation wraps the error of solve s with.
WrapMsg(s) ==
  CASE op.kind = "Resolve" -> "resolve failed"
    [] s = 1 -> "llb build failed"
    [] s = 2 -> "build failed"
    [] OTHER -> "oci unpack failed"

\* The operation returned the error of the failed solve s, wrapped.
ReturnedWrapped(s) == ret.err = <<"NiceError", WrapMsg(s)>> \o sol[s].err

\* C8, as stated: the error returned for a failed solve is the original
\* error wrapped, and when the wrap is taken the progress model holds
\* every status the solver delivered for that solve.
C8_WrapAfterWrites ==
  \A s \in BuildSolves :
    /\ (ret.returned /\ sol[s].err # NoErr) => ReturnedWrapped(s)
    /\ bld.wraps[s].taken => Of(bld.wraps[s].prog, s) = Sent(s, sol[s].nsent)

\* C8, amended: the error returned for a failed solve is the original error
\* wrapped, and when the wrapped error is returned to the caller (of
\* Resolve, of build, of unpackImageArchive) the progress model holds every
\* status the solver delivered for that solve; the wrap itself may be taken
\* before the last delivered status is written.
C8_WrapBeforeReturn ==
  /\ \A s \in BuildSolves :
       /\ (ret.returned /\ sol[s].err # NoErr) => ReturnedWrapped(s)
       /\ (bld.wraps[s].taken /\ (ret.returned \/ BuildReturned)) =>
            Of(prog[proxyOf(s)], s) = Sent(s, sol[s].nsent)
  /\ \A s \in UnpackSolves :
       (bld.wraps[s].taken /\ UnpackReturned) =>
         /\ Of(prog[proxyOf(s)], s) = Sent(s, sol[s].nsent)
         /\ bld.cb = "err" => bld.cbErr = <<"NiceError", "oci unpack failed">> \o sol[s].err

\* A failed pass-2 solve whose wrap was taken before the worker had written
\* the last delivered status, and whose error has been returned.
C8_Witness ==
  /\ ret.returned
  /\ bld.wraps[2].taken
  /\ sol[2].nsent = MaxStatus
  /\ Len(Of(bld.wraps[2].prog, 2)) < MaxStatus
  /\ ReturnedWrapped(2)

\* C9: if Run, Read, Export or ExportPath returns an error, no bytes have
\* been written to the caller's writer.
C9_NoPartialResult ==
  (IsBuildOp /\ ret.returned /\ ret.err # NoErr) => w = <<>>

\* C10: once Run or Read has returned, the scratch directory it made does
\* not exist: it is removed on every return path after its creation.
C10_ScratchRemoved ==
  /\ ret.returned => tmp.state # "exists"
  /\ tmp.state # "none" => op.kind \in {"Run", "Read"}

\* A return of Run or Read with the error of a failed copy, the scratch
\* directory made and removed.
C10_Witness ==
  /\ ret.returned
  /\ tmp.state = "removed"
  /\ ret.err = <<"read response", "copy failed">>

(***************************************************************************)
(* SpecPrune: Buildkit.Prune, the solver's prune call that streams usage   *)
(* records on the channel ch, and the goroutine that prints them to the    *)
(* tabwriter tw over the context's stderr.                                 *)
(***************************************************************************)
\* No operation of Spec or SpecLLB is running.
Quiet ==
  /\ thunk = LeafPlain
  /\ res = NoRes
  /\ Idle

\* The usage records (kitdclient.UsageInfo) the solver can stream: ID, Size
\* and whether LastUsedAt is set.
PruneSizes == {1, 2}

UsageInfos ==
  {[ID |-> "blob", Size |-> n, LastUsedAt |-> u] : n \in PruneSizes, u \in BOOLEAN}

\* The line the goroutine prints for a usage record.  Every such line has
\* tab-separated cells.
PruneLine(du) ==
  [text |-> "pruned", ID |-> du.ID, uses |-> du.LastUsedAt, size |-> du.Size]

\* The line of the total.
TotalLine(total) == [text |-> "total", ID |-> "", uses |-> FALSE, size |-> total]

\* fmt.Fprintln(tw, line) of a line with tabs: the tabwriter keeps the line
\* until it is flushed.
Fprintln(tw, line) == Append(tw, line)

\* fmt.Fprintf(tw, "total: ...") and tw.Flush(): what the tabwriter kept,
\* then the total, reach stderr.
Flush(stderr, tw, total) == stderr \o tw \o <<TotalLine(total)>>

\* client.WithKeepOpt(...), and client.PruneAll when opts.All.
kitdOpts(all) == {"keep"} \cup (IF all THEN {"all"} ELSE {})

InitPrune ==
  /\ Quiet
  /\ call = NoCall
  /\ \E all \in BOOLEAN :
       prune = [pc |-> "start", All |-> all, opts |-> {}, solver |-> "none",
                printer |-> [pc |-> "none", du |-> [ID |-> "", Size |-> 0, LastUsedAt |-> FALSE]],
                sent |-> <<>>, closed |-> FALSE, tw |-> <<>>, stderr |-> <<>>,
                total |-> 0, err |-> NoErr, ret |-> NoRet]

\* Prune: the printing goroutine is started and Client.Prune called.
PruneStart ==
  /\ prune.pc = "start"
  /\ prune' = [prune EXCEPT !.pc = "pruning", !.solver = "running",
                            !.opts = kitdOpts(prune.All), !.printer.pc = "recv"]
  /\ UNCHANGED <<call, thunk, res, op, pc, ret, tmp, w, bld, sol, wk, wg, prog, rec, imageRef0>>

\* The solver streams a usage record; ch is unbuffered, so the goroutine
\* receives it in the same step.
PruneUsage ==
  /\ prune.solver = "running"
  /\ Len(prune.sent) < MaxUsage
  /\ prune.printer.pc = "recv"
  /\ \E du \in UsageInfos :
       prune' = [prune EXCEPT !.sent = Append(@, du), !.printer = [pc |-> "print", du |-> du]]
  /\ UNCHANGED <<call, thunk, res, op, pc, ret, tmp, w, bld, sol, wk, wg, prog, rec, imageRef0>>

\* The goroutine prints the record it received and adds its size.
PrinterPrint ==
  /\ prune.printer.pc = "print"
  /\ prune' = [prune EXCEPT !.tw = Fprintln(@, PruneLine(prune.printer.du)),
                            !.total = @ + prune.printer.du.Size,
                            !.printer.pc = "recv"]
  /\ UNCHANGED <<call, thunk, res, op, pc, ret, tmp, w, bld, sol, wk, wg, prog, rec, imageRef0>>

\* Client.Prune returns, with or without an error.
PruneSolverReturn ==
  /\ prune.solver = "running"
  /\ \E ok \in BOOLEAN :
       prune' = [prune EXCEPT !.solver = "returned",
                              !.err = IF ok THEN NoErr ELSE <<"prune failed">>]
  /\ UNCHANGED <<call, thunk, res, op, pc, ret, tmp, w, bld, sol, wk, wg, prog, rec, imageRef0>>

\* Prune: close(ch), then it waits for printed.
PruneClose ==
  /\ prune.pc = "pruning"
  /\ prune.solver = "returned"
  /\ prune' = [prune EXCEPT !.closed = TRUE, !.pc = "wait"]
  /\ UNCHANGED <<call, thunk, res, op, pc, ret, tmp, w, bld, sol, wk, wg, prog, rec, imageRef0>>

\* The goroutine finds ch closed and closes printed.
PrinterExit ==
  /\ prune.printer.pc = "recv"
  /\ prune.closed
  /\ prune' = [prune EXCEPT !.printer.pc = "done"]
  /\ UNCHANGED <<call, thunk, res, op, pc, ret, tmp, w, bld, sol, wk, wg, prog, rec, imageRef0>>

\* Prune: printed is closed.  On an error of Client.Prune the error is
\* returned; else the total is printed and the tabwriter flushed.
PruneReturn ==
  /\ prune.pc = "wait"
  /\ prune.printer.pc = "done"
  /\ IF prune.err # NoErr
       THEN prune' = [prune EXCEPT !.pc = "done",
                                   !.ret = [returned |-> TRUE, err |-> prune.err]]
       ELSE prune' = [prune EXCEPT !.pc = "done",
                                   !.stderr = Flush(@, prune.tw, prune.total),
                                   !.tw = <<>>,
                                   !.ret = [returned |-> TRUE, err |-> NoErr]]
  /\ UNCHANGED <<call, thunk, res, op, pc, ret, tmp, w, bld, sol, wk, wg, prog, rec, imageRef0>>

NextPrune ==
  \/ PruneStart
  \/ PruneUsage
  \/ PrinterPrint
  \/ PruneSolverReturn
  \/ PruneClose
  \/ PrinterExit
  \/ PruneReturn

SpecPrune == InitPrune /\ [][NextPrune]_vars

RECURSIVE SumSizes(_)
SumSizes(dus) == IF dus = <<>> THEN 0 ELSE Head(dus).Size + SumSizes(Tail(dus))

\* C11: when Prune has returned, with or without an error, stderr has the
\* line of every usage record streamed and the running total, and the
\* tabwriter holds nothing unflushed.
C11_PruneFlushes ==
  prune.ret.returned =>
    /\ prune.tw = <<>>
    /\ prune.stderr = [i \in 1..Len(prune.sent) |-> PruneLine(prune.sent[i])]
                        \o <<TotalLine(SumSizes(prune.sent))>>

(***************************************************************************)
(* The wire decoding (UnmarshalProto).  A decoder returns the outcome of   *)
(* the call, "ok", "err" or "panic", and the value decoded when it is ok.  *)
(***************************************************************************)
NoValue == [kind |-> "none"]
Decoded(v) == [outcome |-> "ok", value |-> v, err |-> NoErr]
DecodeError == [outcome |-> "err", value |-> NoValue, err |-> <<"cannot decode">>]
Failed(msg) == [outcome |-> "err", value |-> NoValue, err |-> <<msg>>]
\* A write through a nil pointer.
NilDereference == [outcome |-> "panic", value |-> NoValue, err |-> NoErr]

\* The commands and working directories of a thunk.
CommandCmd(name) == [kind |-> "command", command |-> name]
FileCmd(p) == [kind |-> "file", path |-> p]
ThunkCmd(t, p) == [kind |-> "thunk", thunk |-> t, path |-> p]
HostCmd(c, p) == [kind |-> "host", context |-> c, path |-> p]
FsCmd(id, p) == [kind |-> "fs", id |-> id, path |-> p]
LocalDir(p) == [kind |-> "dir", path |-> p]
ThunkDir(t, p) == [kind |-> "thunk", thunk |-> t, path |-> p]
HostDir(c, p) == [kind |-> "host", context |-> c, path |-> p]

CommandPathMarshalProto(c) == [Command |-> c.command]
FilePathMarshalProto(f) == [Path |-> f.path]
DirPathMarshalProto(d) == [Path |-> d.path]
HostPathMarshalProto(h) ==
  [Context |-> h.context, Path |-> FilesystemPathMarshalProto(h.path)]
FSPathMarshalProto(f) == [Id |-> f.id, Path |-> FilesystemPathMarshalProto(f.path)]

\* ThunkCmd.MarshalProto
ThunkCmdMarshalProto(cmd) ==
  CASE cmd.kind = "command" ->
         [is |-> "CommandCmd", CommandCmd |-> CommandPathMarshalProto(cmd)]
    [] cmd.kind = "file" -> [is |-> "FileCmd", FileCmd |-> FilePathMarshalProto(cmd)]
    [] cmd.kind = "thunk" -> [is |-> "ThunkCmd", ThunkCmd |-> ThunkPathMarshalProto(cmd)]
    [] cmd.kind = "host" -> [is |-> "HostCmd", HostCmd |-> HostPathMarshalProto(cmd)]
    [] cmd.kind = "fs" -> [is |-> "FsCmd", FsCmd |-> FSPathMarshalProto(cmd)]

\* ThunkDir.MarshalProto
ThunkDirMarshalProto(dir) ==
  CASE dir.kind = "dir" -> [is |-> "LocalDir", LocalDir |-> DirPathMarshalProto(dir)]
    [] dir.kind = "thunk" -> [is |-> "ThunkDir", ThunkDir |-> ThunkPathMarshalProto(dir)]
    [] dir.kind = "host" -> [is |-> "HostDir", HostDir |-> HostPathMarshalProto(dir)]

RECURSIVE ThunkUnmarshalProto(_)
RECURSIVE MountsUnmarshalProto(_)

\* "if err := ...; err != nil { return err }": the failure of r, or what
\* follows, given the value r decoded.
Bind(r, F(_)) == IF r.outcome # "ok" THEN r ELSE F(r.value)

\* fmt.Errorf(msg + ": %w", err), when r returned an error.
WrapErr(msg, r) == IF r.outcome = "err" THEN [r EXCEPT !.err = Wrap(msg, r.err)] ELSE r

\* The decoders of the leaves: each one checks the type of the message, then
\* reads its fields into the value it was called on.
FileOrDirPathUnmarshalProto(msg) ==
  IF DOMAIN msg = {"Path"} THEN Decoded(msg.Path) ELSE DecodeError

DirPathUnmarshalProto(msg) ==
  IF DOMAIN msg = {"Path"} THEN Decoded(msg.Path) ELSE DecodeError

SecretUnmarshalProto(msg) ==
  IF DOMAIN msg = {"Name", "Value"}
    THEN Decoded([name |-> msg.Name, value |-> msg.Value])
    ELSE DecodeError

HostPathUnmarshalProto(msg) ==
  IF DOMAIN msg # {"Context", "Path"} THEN DecodeError
  ELSE Bind(FileOrDirPathUnmarshalProto(msg.Path),
            LAMBDA p : Decoded([context |-> msg.Context, path |-> p]))

ThunkPathUnmarshalProto(msg) ==
  IF DOMAIN msg # {"Thunk", "Path"} THEN DecodeError
  ELSE Bind(ThunkUnmarshalProto(msg.Thunk),
            LAMBDA t : Bind(FileOrDirPathUnmarshalProto(msg.Path),
                            LAMBDA p : Decoded([thunk |-> t, path |-> p])))

\* ThunkMountSource.UnmarshalProto: each arm allocates its value and decodes
\* into it; the cache arm hands the CachePath message to the decoder of a
\* FileOrDirPath, and the arm of an embedded-FS path is not written.
ThunkMountSourceUnmarshalProto(msg) ==
  CASE msg.is = "ThunkSource" ->
         Bind(ThunkPathUnmarshalProto(msg.ThunkSource),
              LAMBDA tp : Decoded(ThunkSource(tp.thunk, tp.path)))
    [] msg.is = "HostSource" ->
         Bind(HostPathUnmarshalProto(msg.HostSource),
              LAMBDA hp : Decoded(HostSource(hp.context, hp.path)))
    [] msg.is = "CacheSource" ->
         Bind(FileOrDirPathUnmarshalProto(msg.CacheSource),
              LAMBDA p : Decoded(CacheSource(p)))
    [] msg.is = "FsSource" -> Failed("TODO: fs source")
    [] msg.is = "SecretSource" ->
         Bind(SecretUnmarshalProto(msg.SecretSource),
              LAMBDA s : Decoded(SecretSource(s.name, s.value)))
    [] OTHER -> Failed("unmarshal proto: unknown type")

\* ThunkMount.UnmarshalProto: the source, then the target.
ThunkMountUnmarshalProto(msg) ==
  Bind(WrapErr("unmarshal proto source", ThunkMountSourceUnmarshalProto(msg.Source)),
       LAMBDA src :
         Bind(WrapErr("unmarshal proto target",
                      FileOrDirPathUnmarshalProto(msg.Target.Path)),
              LAMBDA tgt :
                Decoded(Mount(src, [abs |-> msg.Target.Abs, path |-> tgt]))))

\* ThunkImage.UnmarshalProto: the ref is allocated but its File is not, so the
\* file of a ref is decoded into a nil *ThunkPath.
ThunkImageUnmarshalProto(msg) ==
  CASE msg.is = "RefImage" ->
         LET i == msg.RefImage
             GetRepository == IF i.Source.is = "Repository" THEN i.Source.Repository ELSE ""
             GetTag == IF i.Tag = <<>> THEN "" ELSE i.Tag[1]
             GetDigest == IF i.Digest = <<>> THEN "" ELSE i.Digest[1]
         IN  IF i.Source.is = "File" THEN NilDereference
             ELSE Decoded(RepoRef(GetRepository, GetTag, GetDigest))
    [] msg.is = "ThunkImage" ->
         Bind(ThunkUnmarshalProto(msg.ThunkImage), LAMBDA t : Decoded(ParentImage(t)))
    [] OTHER -> Decoded(EmptyImage)

\* The mounts of a thunk message, decoded in order up to the first failure.
MountsUnmarshalProto(msgs) ==
  IF msgs = <<>> THEN Decoded(<<>>)
  ELSE Bind(ThunkMountUnmarshalProto(Head(msgs)),
            LAMBDA m : Bind(MountsUnmarshalProto(Tail(msgs)),
                            LAMBDA rest : Decoded(<<m>> \o rest)))

\* Thunk.UnmarshalProto, for the fields of the model: the image when there is
\* one, then the mounts.
ThunkUnmarshalProto(msg) ==
  Bind(IF msg.Image.is = "nil" THEN Decoded(NoImage)
       ELSE ThunkImageUnmarshalProto(msg.Image),
       LAMBDA img :
         Bind(MountsUnmarshalProto(msg.Mounts),
              LAMBDA ms : Decoded(Thunk(img, msg.Insecure, ms))))

\* ThunkCmd.UnmarshalProto: no arm allocates the value it decodes into, and
\* the arm of an embedded file is not written.
ThunkCmdUnmarshalProto(msg) ==
  CASE msg.is = "CommandCmd" -> NilDereference
    [] msg.is = "FileCmd" -> NilDereference
    [] msg.is = "ThunkCmd" -> NilDereference
    [] msg.is = "HostCmd" -> NilDereference
    [] msg.is = "FsCmd" -> Failed("TODO")
    [] OTHER -> Failed("unhandled cmd type")

\* ThunkDir.UnmarshalProto: each arm allocates its value and decodes into it.
ThunkDirUnmarshalProto(msg) ==
  CASE msg.is = "LocalDir" ->
         Bind(DirPathUnmarshalProto(msg.LocalDir), LAMBDA d : Decoded(LocalDir(d)))
    [] msg.is = "ThunkDir" ->
         Bind(ThunkPathUnmarshalProto(msg.ThunkDir),
              LAMBDA tp : Decoded(ThunkDir(tp.thunk, tp.path)))
    [] msg.is = "HostDir" ->
         Bind(HostPathUnmarshalProto(msg.HostDir),
              LAMBDA hp : Decoded(HostDir(hp.context, hp.path)))
    [] OTHER -> Failed("unmarshal proto: unknown type")

(***************************************************************************)
(* SpecWire: a value of a thunk is encoded, then the message is decoded.   *)
(***************************************************************************)
Cmds ==
  {CommandCmd("sh"), CommandCmd("go"), FileCmd(<<"run">>),
   ThunkCmd(LeafPlain, <<"bin", "tool">>), ThunkCmd(MidRemount, <<"tool">>),
   HostCmd("ctx", <<"script">>), FsCmd("fs", <<"f">>)}

Dirs ==
  {LocalDir(<<"sub">>), LocalDir(<<".">>), ThunkDir(LeafPlain, <<"out">>),
   ThunkDir(MidNested, <<"out">>), HostDir("ctx", <<"src">>)}

WireValues ==
  {[type |-> "ThunkMount", value |-> m] : m \in Mounts}
    \cup {[type |-> "ThunkMountSource", value |-> s] : s \in Sources}
    \cup {[type |-> "ThunkImage", value |-> i] : i \in Images \ {NoImage, EmptyImage}}
    \cup {[type |-> "ThunkCmd", value |-> c] : c \in Cmds}
    \cup {[type |-> "ThunkDir", value |-> d] : d \in Dirs}

\* The MarshalProto method of the value's type.
MarshalProto(type, v) ==
  CASE type = "ThunkMount" -> ThunkMountMarshalProto(v)
    [] type = "ThunkMountSource" -> ThunkMountSourceMarshalProto(v)
    [] type = "ThunkImage" -> ThunkImageMarshalProto(v)
    [] type = "ThunkCmd" -> ThunkCmdMarshalProto(v)
    [] type = "ThunkDir" -> ThunkDirMarshalProto(v)

\* The UnmarshalProto method of the value's type, called on a zero value.
UnmarshalProto(type, msg) ==
  CASE type = "ThunkMount" -> ThunkMountUnmarshalProto(msg)
    [] type = "ThunkMountSource" -> ThunkMountSourceUnmarshalProto(msg)
    [] type = "ThunkImage" -> ThunkImageUnmarshalProto(msg)
    [] type = "ThunkCmd" -> ThunkCmdUnmarshalProto(msg)
    [] type = "ThunkDir" -> ThunkDirUnmarshalProto(msg)

NoDecode == [outcome |-> "none", value |-> NoValue, err |-> NoErr]

InitWire ==
  /\ Quiet
  /\ prune = NoPrune
  /\ \E v \in WireValues :
       call = [fn |-> "wire", pc |-> "value", type |-> v.type, in |-> v.value,
               msg |-> [is |-> "nil"], out |-> NoDecode]

WireMarshal ==
  /\ call.fn = "wire"
  /\ call.pc = "value"
  /\ call' = [call EXCEPT !.pc = "message", !.msg = MarshalProto(call.type, call.in)]
  /\ UNCHANGED <<prune, thunk, res, op, pc, ret, tmp, w, bld, sol, wk, wg, prog, rec,
                 imageRef0>>

WireUnmarshal ==
  /\ call.fn = "wire"
  /\ call.pc = "message"
  /\ call' = [call EXCEPT !.pc = "decoded", !.out = UnmarshalProto(call.type, call.msg)]
  /\ UNCHANGED <<prune, thunk, res, op, pc, ret, tmp, w, bld, sol, wk, wg, prog, rec,
                 imageRef0>>

NextWire ==
  \/ WireMarshal
  \/ WireUnmarshal

SpecWire == InitWire /\ [][NextWire]_vars

\* C12: every mount, mount source, image, command and dir value that is
\* encoded and then decoded comes back without error or panic, equal to the
\* value that was encoded.
C12_RoundTrip ==
  (call.fn = "wire" /\ call.pc = "decoded") =>
    /\ call.out.outcome = "ok"
    /\ call.out.value = call.in

\* The arms of the round trip that do hold: mounts and mount sources of a
\* thunk output, a host dir or a secret, images by repository or parent
\* thunk, and dir values.
WireSound ==
  \/ call.type = "ThunkDir"
  \/ call.type = "ThunkImage" /\ ~(call.in.kind = "ref" /\ call.in.ref.file.kind = "file")
  \/ call.type = "ThunkMountSource" /\ call.in.kind \in {"thunk", "host", "secret"}
  \/ call.type = "ThunkMount" /\ call.in.source.kind \in {"thunk", "host", "secret"}

C12_SoundArms ==
  (call.fn = "wire" /\ call.pc = "decoded" /\ WireSound) =>
    /\ call.out.outcome = "ok"
    /\ call.out.value = call.in

(***************************************************************************)
(* SpecThunk: the command, args, stdin, env, dir and labels of a thunk are *)
(* encoded.  A scope is the sequence of its bindings [name, value] in      *)
(* insertion order, the names distinct; a value is a string.               *)
(***************************************************************************)
MaxArgs == 2

\* The symbols of the model, in the order of Go's < on strings.
Symbols == <<"GOOS", "HOME", "PATH">>
SymbolIndex(sym) == CHOOSE i \in 1..Len(Symbols) : Symbols[i] = sym
SymbolLess(a, b) == SymbolIndex(a) < SymbolIndex(b)

\* Scope.Each: the callback is called once for each binding, in the order
\* of the names.
Each(scope) == SortSeq(scope, LAMBDA x, y : SymbolLess(x.name, y.name))

\* String.MarshalProto under MarshalProto
StringMarshalProto(v) == [is |-> "String", String |-> [Inner |-> v]]

\* The callback of Each: a mutant that puts the binding in front.
PrependBinding(bindings, sym, val) ==
  <<[Name |-> sym, Value |-> StringMarshalProto(val)]>> \o bindings

\* The callback of Each: the binding is appended to the list.
AppendBinding(bindings, sym, val) ==
  Append(bindings, [Name |-> sym, Value |-> StringMarshalProto(val)])

RECURSIVE EachAppend(_, _)
\* value.Each(func(sym, val) { ... append ... }), from the bindings so far.
EachAppend(bindings, visited) ==
  IF visited = <<>> THEN bindings
  ELSE EachAppend(AppendBinding(bindings, Head(visited).name, Head(visited).value),
                  Tail(visited))

\* Scope.MarshalProto
ScopeMarshalProto(scope) == [Bindings |-> EachAppend(<<>>, Each(scope))]

\* Thunk.MarshalProto, for the command, args, stdin, env, dir and labels:
\* the args are appended to Args, and so are the values of stdin.
ThunkFieldsMarshalProto(t) ==
  [Cmd |-> ThunkCmdMarshalProto(t.cmd),
   Args |-> [i \in 1..Len(t.args) |-> StringMarshalProto(t.args[i])]
              \o [i \in 1..Len(t.stdin) |-> StringMarshalProto(t.stdin[i])],
   Env |-> EachAppend(<<>>, Each(t.env)),
   Dir |-> IF t.dir.kind = "none" THEN [is |-> "nil"] ELSE ThunkDirMarshalProto(t.dir),
   Labels |-> EachAppend(<<>>, Each(t.labels))]

\* The scopes over the symbols S, every insertion order, the values among V.
ScopesOver(S, V) ==
  UNION {{s \in [1..k -> [name : S, value : V]] :
            \A i, j \in 1..k : i # j => s[i].name # s[j].name} :
         k \in 0..Cardinality(S)}

ThunkFields ==
  {[cmd |-> CommandCmd("sh"), args |-> a, stdin |-> i, env |-> e, dir |-> d, labels |-> l] :
     a \in SeqsUpTo({"-c", "ls"}, MaxArgs), i \in SeqsUpTo({"in"}, 1),
     e \in ScopesOver({"GOOS", "HOME", "PATH"}, {"x"}),
     d \in {NoValue, LocalDir(<<"sub">>)},
     l \in ScopesOver({"GOOS", "PATH"}, {"x", "y"})}

InitThunk ==
  /\ Quiet
  /\ prune = NoPrune
  /\ \E t \in ThunkFields :
       call = [fn |-> "thunk", pc |-> "value", in |-> t, msg |-> [is |-> "nil"]]

ThunkMarshal ==
  /\ call.fn = "thunk"
  /\ call.pc = "value"
  /\ call' = [call EXCEPT !.pc = "message",
                          !.msg = [is |-> "Thunk", Thunk |-> ThunkFieldsMarshalProto(call.in),
                                   Object |-> ScopeMarshalProto(call.in.env)]]
  /\ UNCHANGED <<prune, thunk, res, op, pc, ret, tmp, w, bld, sol, wk, wg, prog, rec,
                 imageRef0>>

NextThunk == ThunkMarshal

SpecThunk == InitThunk /\ [][NextThunk]_vars

\* The names of an encoded binding list are in ascending order.
SortedByName(bindings) ==
  \A i, j \in 1..Len(bindings) : i < j => SymbolLess(bindings[i].Name, bindings[j].Name)

\* The encoded binding list holds exactly the bindings of the scope.
SameBindings(bindings, scope) ==
  {[name |-> bindings[i].Name, value |-> bindings[i].Value.String.Inner] :
     i \in 1..Len(bindings)} = Range(scope)
  /\ Len(bindings) = Len(scope)

\* The scopes that hold the bindings of scope, in any insertion order.
Reordered(scope) ==
  {s \in [1..Len(scope) -> Range(scope)] : Range(s) = Range(scope)}

C14_ArgsOnly ==
  (call.fn = "thunk" /\ call.pc = "message") =>
    call.msg.Thunk.Args = [i \in 1..Len(call.in.args) |-> StringMarshalProto(call.in.args[i])]

(***************************************************************************)
(* SpecImageRef: the reference string of an image ref, and the selection   *)
(* of a runtime by the platform of an image ref.                           *)
(***************************************************************************)
Platform(os, arch) == [OS |-> os, Arch |-> arch]
LinuxPlatform == Platform("linux", "")

\* CanSelect with the empty arch looked for in the given platform.
CanSelectGivenAny(platform, given) ==
  IF platform.OS # given.OS THEN FALSE
  ELSE given.Arch = "" \/ platform.Arch = given.Arch

\* Platform.CanSelect
CanSelect(platform, given) ==
  IF platform.OS # given.OS THEN FALSE
  ELSE platform.Arch = "" \/ platform.Arch = given.Arch

ImageRefs ==
  {[repository |-> r, file |-> f, tag |-> t, digest |-> d] :
     r \in {"", "alpine", "busybox"},
     f \in {NoFile, FileRef(LeafPlain, <<"image.tar">>, "").ref.file,
            FileRef(MidNested, <<"oci", "image.tar">>, "").ref.file},
     t \in {"", "3.19", "v2"}, d \in {"", "sha256:d", "sha256:e"}}

Platforms ==
  {Platform(os, arch) : os \in {"linux", "darwin", "windows"},
                        arch \in {"", "amd64", "arm64"}}

InitImageRef ==
  /\ Quiet
  /\ prune = NoPrune
  /\ \/ \E r \in ImageRefs :
          call = [fn |-> "Ref", pc |-> "call", ref |-> r,
                  out |-> [err |-> NoErr, ref |-> <<>>]]
     \/ \E p \in Platforms, g \in Platforms :
          call = [fn |-> "CanSelect", pc |-> "call", platform |-> p, given |-> g,
                  out |-> FALSE]

CallRef ==
  /\ call.fn = "Ref"
  /\ call.pc = "call"
  /\ call' = [call EXCEPT !.pc = "returned", !.out = Ref(call.ref)]
  /\ UNCHANGED <<prune, thunk, res, op, pc, ret, tmp, w, bld, sol, wk, wg, prog, rec,
                 imageRef0>>

CallCanSelect ==
  /\ call.fn = "CanSelect"
  /\ call.pc = "call"
  /\ call' = [call EXCEPT !.pc = "returned",
                          !.out = CanSelect(call.platform, call.given)]
  /\ UNCHANGED <<prune, thunk, res, op, pc, ret, tmp, w, bld, sol, wk, wg, prog, rec,
                 imageRef0>>

NextImageRef ==
  \/ CallRef
  \/ CallCanSelect

SpecImageRef == InitImageRef /\ [][NextImageRef]_vars

RefReturned == call.fn = "Ref" /\ call.pc = "returned"

\* C15: for a ref with a repository, Ref() is repo@digest when there is a
\* digest, whatever the tag; else repo:tag when there is a tag; else
\* repo:latest.
C15_RepositoryRef ==
  (RefReturned /\ call.ref.repository # "") =>
    /\ call.out.err = NoErr
    /\ call.ref.digest # "" =>
         call.out.ref = <<call.ref.repository, "@", call.ref.digest>>
    /\ (call.ref.digest = "" /\ call.ref.tag # "") =>
         call.out.ref = <<call.ref.repository, ":", call.ref.tag>>
    /\ (call.ref.digest = "" /\ call.ref.tag = "") =>
         call.out.ref = <<call.ref.repository, ":", "latest">>

\* Ref() has returned for a ref with a repository, a tag and a digest.
C15_Witness ==
  /\ RefReturned
  /\ call.ref.repository # "" /\ call.ref.tag # "" /\ call.ref.digest # ""
  /\ call.out.ref = <<call.ref.repository, "@", call.ref.digest>>

FileRefCase == RefReturned /\ call.ref.repository = "" /\ call.ref.file.kind = "file"

\* C16: for a ref with a file and no repository, the reference string is
\* the file's thunk-output path plus the tag.
C16_FileRefString ==
  FileRefCase =>
    /\ call.out.err = NoErr
    /\ call.out.ref = <<SHA256(call.ref.file.thunk)>> \o call.ref.file.path \o <<":", call.ref.tag>>

\* C16, amended: a ref with a file and no repository has no reference
\* string; Ref() returns the error that the ref does not refer to a
\* repository, whatever the file and the tag.
C16_FileRefHasNoRef ==
  FileRefCase =>
    /\ call.out.err = <<"ref does not refer to a repository">>
    /\ call.out.ref = <<>>

\* Ref() has returned for a ref with a file, a tag and no repository.
C16_Witness == FileRefCase /\ call.ref.tag # "" /\ call.out.err # NoErr

\* C17: CanSelect is true exactly when the OS values are equal and the
\* selecting platform's arch is empty or equal to the given arch.
C17_CanSelect ==
  (call.fn = "CanSelect" /\ call.pc = "returned") =>
    (call.out <=> (/\ call.platform.OS = call.given.OS
                   /\ call.platform.Arch \in {"", call.given.Arch}))

\* CanSelect has returned true for a platform of any arch and a given
\* platform that names one.
C17_Witness ==
  /\ call.fn = "CanSelect" /\ call.pc = "returned"
  /\ call.platform.Arch = "" /\ call.given.Arch # "" /\ call.out

(***************************************************************************)
(* SpecNew: the runtime is constructed from the workers that buildkitd     *)
(* lists, then builds with the platform it stored.                         *)
(***************************************************************************)
MaxWorkers == 3

OCIPlatform(os, arch) == [OS |-> os, Architecture |-> arch]
NoPlatform == OCIPlatform("", "")

\* platforms.Only(platform).Match(given): the platform itself, or one that
\* it runs as well: 386 on amd64, arm on arm64.
OnlyMatch(platform, given) ==
  \/ given = platform
  \/ /\ given.OS = platform.OS
     /\ <<platform.Architecture, given.Architecture>> \in {<<"amd64", "386">>, <<"arm64", "arm">>}

RECURSIVE checkSame(_, _, _)
\* The loop over the workers: each worker's first platform is matched with
\* the one before it, and becomes the platform.
checkSame(workers, platform, first) ==
  IF workers = <<>> THEN [err |-> NoErr, Platform |-> platform]
  ELSE IF ~first /\ ~OnlyMatch(platform, Head(workers).Platforms[1])
         THEN [err |-> <<"TODO: workers have different platforms">>,
               Platform |-> NoPlatform]
         ELSE checkSame(Tail(workers), Head(workers).Platforms[1], FALSE)

\* NewBuildkit, from the workers that client.ListWorkers returned.
NewBuildkit(workers) == checkSame(workers, NoPlatform, TRUE)

Workers ==
  {[Platforms |-> <<OCIPlatform("linux", "amd64")>>],
   [Platforms |-> <<OCIPlatform("linux", "386")>>],
   [Platforms |-> <<OCIPlatform("linux", "arm64")>>],
   [Platforms |-> <<OCIPlatform("linux", "amd64"), OCIPlatform("linux", "386")>>]}

\* The runtime of a builder, from what NewBuildkit returned.
Built(out) == [arch |-> out.Platform.Architecture, DisableCache |-> FALSE]

InitNew ==
  /\ Quiet
  /\ prune = NoPrune
  /\ \E ws \in SeqsUpTo(Workers, MaxWorkers) :
       call = [fn |-> "NewBuildkit", pc |-> "call", workers |-> ws,
               out |-> [err |-> NoErr, Platform |-> NoPlatform],
               shim |-> NoErr, image |-> Scratch]

NewBuildkitCall ==
  /\ call.fn = "NewBuildkit"
  /\ call.pc = "call"
  /\ LET out == NewBuildkit(call.workers)
     IN  call' = [call EXCEPT !.pc = IF out.err = NoErr THEN "built" ELSE "failed",
                              !.out = out]
  /\ UNCHANGED <<prune, thunk, res, op, pc, ret, tmp, w, bld, sol, wk, wg, prog, rec,
                 imageRef0>>

\* A later build: the shim is selected and the image node of the thunk made.
BuilderShim ==
  /\ call.fn = "NewBuildkit"
  /\ call.pc = "built"
  /\ LET b == newBuilder(Built(call.out), <<>>)
     IN  call' = [call EXCEPT !.pc = "shim", !.shim = shim(b).err,
                              !.image = imageRef(b, thunk.image).st]
  /\ UNCHANGED <<prune, thunk, res, op, pc, ret, tmp, w, bld, sol, wk, wg, prog, rec,
                 imageRef0>>

NextNew ==
  \/ NewBuildkitCall
  \/ BuilderShim

SpecNew == InitNew /\ [][NextNew]_vars

\* The first platforms of the workers.
WorkerPlatforms(workers) == {workers[i].Platforms[1] : i \in 1..Len(workers)}

\* C18: NewBuildkit fails whenever the listed workers do not all have the
\* same platform, in whatever order they are listed; when it succeeds the
\* platform stored is the one all workers have, and the image node and the
\* shim of a later build are those of that platform.
C18_WorkersAgree ==
  (call.fn = "NewBuildkit" /\ call.pc # "call") =>
    /\ Cardinality(WorkerPlatforms(call.workers)) > 1 => call.out.err # NoErr
    /\ call.out.err = NoErr => WorkerPlatforms(call.workers) \subseteq {call.out.Platform}
    /\ call.pc = "shim" =>
         /\ call.image.arch = call.out.Platform.Architecture
         /\ (call.shim = NoErr) <=> (call.out.Platform.Architecture \in allShims)

\* What the code does keep: every worker's platform is matched by the one
\* listed before it, and the platform stored is the last worker's.
C18_LastWorker ==
  (call.fn = "NewBuildkit" /\ call.pc \in {"built", "shim"}) =>
    /\ \A i \in 1..(Len(call.workers) - 1) :
         OnlyMatch(call.workers[i].Platforms[1], call.workers[i + 1].Platforms[1])
    /\ call.workers # <<>> =>
         call.out.Platform = call.workers[Len(call.workers)].Platforms[1]

\* C19: Resolve of a ref with a repository returns that ref with only the
\* digest changed, set to the digest resolved; when Resolve returns an error
\* it returns no ref and the caller's ref is as it was given, with no digest
\* set by the call.
C19_ResolveLeavesRefOnError ==
  (op.kind = "Resolve" /\ ret.returned) =>
    IF ret.err = NoErr
      THEN /\ imageRef0.repository # ""
           /\ \E r \in ResolveRefs : ret.ref = [r EXCEPT !.digest = "sha256:d"]
      ELSE /\ ret.ref = NoRefRet
           /\ imageRef0 \in ResolveRefs

\* What the code does keep: a ref is returned only without error, and a ref
\* that Ref() or the normalization rejects is left as it was given.
C19_RejectedRefUntouched ==
  (op.kind = "Resolve" /\ ret.returned) =>
    /\ ret.err # NoErr => ret.ref = NoRefRet
    /\ ret.err = NoErr => ret.ref = imageRef0 /\ imageRef0.digest = "sha256:d"
    /\ sol[1].state = "none" => imageRef0 \in ResolveRefs

(***************************************************************************)
(* SpecCache: two concurrent runs, each with one cache mount.  A run       *)
(* translates its mount and submits the solve; the solver gives a locked   *)
(* cache directory to one solve at a time.                                 *)
(***************************************************************************)
CacheSolves == {1, 2}

\* The CachePath of a mount message: the id of the cache and the path.
CachePath(id, p) == [kind |-> "cache", id |-> id, path |-> p]

CachePaths == {CachePath(id, p) : id \in {"go-mod", "npm"}, p \in {<<".">>, <<"sub">>}}

CacheTarget == <<"root", ".cache", "go-build">>

NoMount == MountInfo(<<>>, "none", Scratch, <<>>, <<>>, "")

InitCache ==
  /\ Quiet
  /\ prune = NoPrune
  /\ \E c \in [CacheSolves -> CachePaths] :
       call = [fn |-> "cache",
               solve |-> [s \in CacheSolves |->
                            [pc |-> "start", cache |-> c[s], mount |-> NoMount]]]

\* llb.CacheMountLocked: the solves that hold the cache directory that the
\* mount m names.
Holders(m) ==
  {t \in CacheSolves : /\ call.solve[t].pc = "holding"
                       /\ call.solve[t].mount.cacheId = m.cacheId}

\* The run translates the mount and submits the solve.
CacheSubmit(s) ==
  /\ call.fn = "cache"
  /\ call.solve[s].pc = "start"
  /\ LET m == initializeMount(newBuilder([arch |-> "amd64", DisableCache |-> FALSE], <<>>),
                              call.solve[s].cache, CacheTarget)
     IN  call' = [call EXCEPT !.solve[s].pc = "waiting", !.solve[s].mount = m.mountOpt]
  /\ UNCHANGED <<prune, thunk, res, op, pc, ret, tmp, w, bld, sol, wk, wg, prog, rec,
                 imageRef0>>

\* The solver starts the command once no other solve holds its cache.
CacheAcquire(s) ==
  /\ call.fn = "cache"
  /\ call.solve[s].pc = "waiting"
  /\ Holders(call.solve[s].mount) = {}
  /\ call' = [call EXCEPT !.solve[s].pc = "holding"]
  /\ UNCHANGED <<prune, thunk, res, op, pc, ret, tmp, w, bld, sol, wk, wg, prog, rec,
                 imageRef0>>

\* The command exits, the cache is released and the solve succeeds.
CacheRelease(s) ==
  /\ call.fn = "cache"
  /\ call.solve[s].pc = "holding"
  /\ call' = [call EXCEPT !.solve[s].pc = "done"]
  /\ UNCHANGED <<prune, thunk, res, op, pc, ret, tmp, w, bld, sol, wk, wg, prog, rec,
                 imageRef0>>

NextCache ==
  \E s \in CacheSolves :
    \/ CacheSubmit(s)
    \/ CacheAcquire(s)
    \/ CacheRelease(s)

SpecCache == InitCache /\ [][NextCache]_vars

\* The solver runs every solve that can go on.
SpecCacheFair ==
  SpecCache /\ \A s \in CacheSolves : WF_vars(CacheAcquire(s) \/ CacheRelease(s) \/ CacheSubmit(s))

Submitted(s) == call.fn = "cache" /\ call.solve[s].pc # "start"
Holding(s) == call.fn = "cache" /\ call.solve[s].pc = "holding"
\* The two mounts name the same cache.
SameNamedCache == call.solve[1].cache.id = call.solve[2].cache.id

\* C20: of two concurrent solves that mount the same named cache at most one
\* holds it at a time, and the cache that a mount refers to is determined
\* by the identity of its Cache source: mounts of the same named cache refer
\* to the same cache directory, mounts of different caches to different
\* ones.
C20_CacheLock ==
  (call.fn = "cache" /\ Submitted(1) /\ Submitted(2)) =>
    /\ SameNamedCache => ~(Holding(1) /\ Holding(2))
    /\ SameNamedCache <=> (call.solve[1].mount.cacheId = call.solve[2].mount.cacheId)

\* What the code does keep: the cache directory of a mount is named by the
\* path of its source, and two solves whose mounts have the same path never
\* hold the cache together.
C20_LockedByPath ==
  (call.fn = "cache" /\ Submitted(1) /\ Submitted(2)) =>
    /\ \A s \in CacheSolves : call.solve[s].mount.cacheId = call.solve[s].cache.path
    /\ call.solve[1].cache.path = call.solve[2].cache.path => ~(Holding(1) /\ Holding(2))

\* Both solves end, whatever caches they mount.
C20_BothSucceed == <>(\A s \in CacheSolves : call.solve[s].pc = "done")

(***************************************************************************)
(* The calls of builder.llb that one translation makes.                    *)
(***************************************************************************)
RECURSIVE llbCalls(_), mountCalls(_, _)

\* The loop over cmd.Mounts from the i-th mount on: initializeMount calls
\* b.llb for each source that is a thunk output.
mountCalls(mounts, i) ==
  IF i > Len(mounts) THEN <<>>
  ELSE (IF mounts[i].source.kind = "thunk" THEN llbCalls(mounts[i].source.thunk) ELSE <<>>)
         \o mountCalls(mounts, i + 1)

\* The fingerprints of the thunks that b.llb is called with while a thunk is
\* translated without error, in the order of the calls: the thunk, then what
\* imageRef translates (the parent thunk, or the producer of the archive
\* file), then what the mounts translate.
llbCalls(t) ==
  <<SHA256(t)>>
    \o (CASE t.image.kind = "thunk" -> llbCalls(t.image.thunk)
          [] t.image.kind = "ref" /\ t.image.ref.file.kind = "file" ->
               llbCalls(t.image.ref.file.thunk)
          [] OTHER -> <<>>)
    \o mountCalls(NewCommand(t).Mounts, 1)

\* C21: within one translation no thunk is translated twice: a sub-thunk
\* referenced from several places is translated once and the result reused.
C21_TranslatedOnce ==
  Translated =>
    LET calls == llbCalls(thunk)
    IN  \A i, j \in 1..Len(calls) : i # j => calls[i] # calls[j]

\* What the code does keep: every reference is translated anew, one call of
\* b.llb for the thunk and one for each reference to a thunk at any depth.
C21_TranslatedPerReference ==
  Translated => Len(llbCalls(thunk)) >= Cardinality(Referenced(thunk)) + 1

(***************************************************************************)
(* SpecRegistry: the init() functions of the runtime packages register     *)
(* their constructors, then the program initializes runtimes by name.      *)
(* The registry is the set of its entries [name, init].                    *)
(***************************************************************************)
MaxInits == 2

BuildkitName == "buildkit"

\* RegisterRuntime: runtimes[name] = init
RegisterRuntime(runtimes, name, init) ==
  {e \in runtimes : e.name # name} \cup {[name |-> name, init |-> init]}

UnknownRuntimeError(name) == <<"unknown runtime", name>>

NoRuntime == [kind |-> "nil"]

\* Init that falls back to the buildkit constructor for an unknown name.
InitOrDefault(runtimes, config, pool, built) ==
  LET found == {e \in runtimes : e.name \in {config.Runtime, BuildkitName}}
  IN  IF found = {}
        THEN [invoked |-> <<>>, runtime |-> NoRuntime,
              err |-> UnknownRuntimeError(config.Runtime)]
        ELSE LET init == (CHOOSE e \in found : TRUE).init
             IN  [invoked |-> <<[init |-> init, pool |-> pool, addrs |-> config.Addrs,
                                 config |-> config.Config]>>,
                  runtime |-> IF built THEN [kind |-> init, pool |-> pool,
                                             addrs |-> config.Addrs,
                                             config |-> config.Config]
                              ELSE NoRuntime,
                  err |-> IF built THEN NoErr ELSE <<"dial buildkit">>]

\* Init: the constructor registered under config.Runtime, called with the
\* pool, the addresses and the nested config; built tells whether the
\* constructor returns a runtime or an error.
RuntimeInit(runtimes, config, pool, built) ==
  LET found == {e \in runtimes : e.name = config.Runtime}
  IN  IF found = {}
        THEN [invoked |-> <<>>, runtime |-> NoRuntime,
              err |-> UnknownRuntimeError(config.Runtime)]
        ELSE LET init == (CHOOSE e \in found : TRUE).init
             IN  [invoked |-> <<[init |-> init, pool |-> pool, addrs |-> config.Addrs,
                                 config |-> config.Config]>>,
                  runtime |-> IF built THEN [kind |-> init, pool |-> pool,
                                             addrs |-> config.Addrs,
                                             config |-> config.Config]
                              ELSE NoRuntime,
                  err |-> IF built THEN NoErr ELSE <<"dial buildkit">>]

\* The init() functions of the program, in the order the Go runtime runs
\* them: the one of buildkit.go, and those of other runtime packages.
Registrations ==
  {<<[name |-> BuildkitName, init |-> "NewBuildkit"]>> \o rest :
     rest \in SeqsUpTo({[name |-> n, init |-> i] :
                          n \in {BuildkitName, "docker"}, i \in {"NewDocker", "NewOther"}}, 1)}
    \cup {<<>>}

RuntimeConfigs ==
  {[Runtime |-> n, Addrs |-> a, Config |-> c] :
     n \in {BuildkitName, "docker", "podman"}, a \in {"unix:///run/buildkit"},
     c \in {"nil", "disable-cache"}}

InitRegistry ==
  /\ Quiet
  /\ prune = NoPrune
  /\ \E regs \in Registrations :
       call = [fn |-> "registry", phase |-> "init", pending |-> regs, runtimes |-> {},
               registered |-> {}, n |-> 0,
               config |-> [Runtime |-> "", Addrs |-> "", Config |-> ""],
               before |-> {},
               out |-> [invoked |-> <<>>, runtime |-> NoRuntime, err |-> NoErr]]

\* An init() function runs: RegisterRuntime(name, constructor).
PackageInit ==
  /\ call.fn = "registry"
  /\ call.phase = "init"
  /\ call.pending # <<>>
  /\ call' = [call EXCEPT !.pending = Tail(@),
                !.runtimes = RegisterRuntime(@, Head(call.pending).name,
                                             Head(call.pending).init)]
  /\ UNCHANGED <<prune, thunk, res, op, pc, ret, tmp, w, bld, sol, wk, wg, prog, rec,
                 imageRef0>>

\* Initialization is over and main starts.
MainStart ==
  /\ call.fn = "registry"
  /\ call.phase = "init"
  /\ call.pending = <<>>
  /\ call' = [call EXCEPT !.phase = "main", !.registered = call.runtimes]
  /\ UNCHANGED <<prune, thunk, res, op, pc, ret, tmp, w, bld, sol, wk, wg, prog, rec,
                 imageRef0>>

\* The program initializes a runtime.
InitCall ==
  /\ call.fn = "registry"
  /\ call.phase = "main"
  /\ call.n < MaxInits
  /\ \E config \in RuntimeConfigs, built \in BOOLEAN :
       call' = [call EXCEPT !.n = @ + 1, !.config = config, !.before = call.runtimes,
                            !.out = RuntimeInit(call.runtimes, config, "pool", built)]
  /\ UNCHANGED <<prune, thunk, res, op, pc, ret, tmp, w, bld, sol, wk, wg, prog, rec,
                 imageRef0>>

NextRegistry ==
  \/ PackageInit
  \/ MainStart
  \/ InitCall

SpecRegistry == InitRegistry /\ [][NextRegistry]_vars

InitReturned == call.fn = "registry" /\ call.n > 0

\* C22: Init returns the unknown-runtime error that names config.Runtime,
\* and calls no constructor, exactly when no constructor is registered under
\* that name; otherwise it calls the constructor registered under that name,
\* once, with the pool, the addresses and the nested config, and returns what
\* the constructor returned.  After initialization the registry is only
\* read: it stays as the init() functions left it.
C22_Registry ==
  /\ (call.fn = "registry" /\ call.phase = "main") => call.runtimes = call.registered
  /\ InitReturned =>
       LET found == {e \in call.before : e.name = call.config.Runtime} IN
       /\ (call.out.err = UnknownRuntimeError(call.config.Runtime)) <=> (found = {})
       /\ found = {} => call.out.invoked = <<>> /\ call.out.runtime = NoRuntime
       /\ found # {} =>
            /\ Len(call.out.invoked) = 1
            /\ [name |-> call.config.Runtime, init |-> call.out.invoked[1].init] \in call.before
            /\ call.out.invoked[1].pool = "pool"
            /\ call.out.invoked[1].addrs = call.config.Addrs
            /\ call.out.invoked[1].config = call.config.Config
            /\ (call.out.err = NoErr) => call.out.runtime.kind = call.out.invoked[1].init
            /\ (call.out.err # NoErr) => call.out.runtime = NoRuntime
       /\ Cardinality({e \in call.before : e.name = call.config.Runtime}) <= 1

\* Init has returned the unknown-runtime error for a name that is not
\* registered while another name is.
C22_Witness ==
  /\ InitReturned
  /\ call.config.Runtime = "podman"
  /\ call.before # {}
  /\ call.out.err = UnknownRuntimeError("podman")

(***************************************************************************)
(* SpecEval: a Pair is evaluated.  Values are records: an int, a symbol,   *)
(* an operative [formals, eformal, body], a list of values; an environment *)
(* is the set of its bindings [name, value].                               *)
(***************************************************************************)
IntValue(n) == [kind |-> "int", n |-> n]
Symbol(name) == [kind |-> "symbol", name |-> name]
List(items) == [kind |-> "list", items |-> items]
Operative(formals, eformal, body) ==
  [kind |-> "operative", formals |-> formals, eformal |-> eformal, body |-> body]
Pair(a, d) == [kind |-> "pair", A |-> a, D |-> d]
Null == [kind |-> "null"]

ContResult(r, e) == [res |-> r, err |-> e]

\* value.Eval(ctx, env, cont), for a value that is not a pair: what cont is
\* called with.  An operative and an int evaluate to themselves, a symbol
\* to what the environment binds it to.
Eval(value, env) ==
  CASE value.kind = "symbol" ->
         LET bound == {e \in env : e.name = value.name}
         IN  IF bound = {} THEN ContResult(Null, <<"unbound symbol", value.name>>)
             ELSE ContResult((CHOOSE e \in bound : TRUE).value, NoErr)
    [] OTHER -> ContResult(value, NoErr)

\* f.Decode(&combiner): only a combiner decodes into a Combiner.
DecodeCombiner(f) ==
  IF f.kind = "operative" THEN NoErr ELSE <<"cannot decode", f.kind, "Combiner">>

\* sub.Define(formals, val): a symbol binds the whole value, _ binds
\* nothing, a list of symbols binds the items of a list of the same length.
Define(env, formals, val) ==
  CASE formals.kind = "symbol" /\ formals.name = "_" -> [err |-> NoErr, env |-> env]
    [] formals.kind = "symbol" /\ formals.name # "_" ->
         [err |-> NoErr,
          env |-> {e \in env : e.name # formals.name}
                    \cup {[name |-> formals.name, value |-> val]}]
    [] formals.kind = "list" ->
         IF val.kind = "list" /\ Len(val.items) = Len(formals.items)
           THEN [err |-> NoErr,
                 env |-> {e \in env : \A i \in 1..Len(formals.items) :
                                        e.name # formals.items[i].name}
                           \cup {[name |-> formals.items[i].name, value |-> val.items[i]] :
                                   i \in 1..Len(formals.items)}]
           ELSE [err |-> <<"cannot bind", "arity">>, env |-> env]
    [] OTHER -> [err |-> <<"cannot bind">>, env |-> env]

\* The function chained before cont, with the combiner given the whole pair
\* as its operand.
applyWholePair(value, f, env, cont) ==
  IF DecodeCombiner(f) # NoErr
    THEN [calls |-> <<>>, cont |-> <<ContResult(Null, Wrap("apply", DecodeCombiner(f)))>>]
    ELSE [calls |-> <<[combiner |-> f, val |-> List(<<value.A>> \o value.D.items),
                       env |-> env, cont |-> cont]>>,
          cont |-> <<>>]

\* Pair.Eval, the function chained before cont: f is decoded as a combiner;
\* on an error cont is called with it, else the combiner is called with the
\* rest of the pair, the environment and cont.
apply(value, f, env, cont) ==
  IF DecodeCombiner(f) # NoErr
    THEN [calls |-> <<>>, cont |-> <<ContResult(Null, Wrap("apply", DecodeCombiner(f)))>>]
    ELSE [calls |-> <<[combiner |-> f, val |-> value.D, env |-> env, cont |-> cont]>>,
          cont |-> <<>>]

\* Operative.Call: what cont is called with.
OperativeCall(combiner, val, env) ==
  LET sub == Define({}, combiner.formals, val)
      sub2 == Define(sub.env, combiner.eformal, [kind |-> "env", env |-> env])
  IN  IF sub.err # NoErr THEN ContResult(Null, sub.err)
      ELSE IF sub2.err # NoErr THEN ContResult(Null, sub2.err)
      ELSE Eval(combiner.body, sub2.env)

Operatives ==
  {Operative(Symbol("args"), Symbol("_"), Symbol("args")),
   Operative(List(<<Symbol("x")>>), Symbol("e"), Symbol("x")),
   Operative(List(<<>>), Symbol("_"), IntValue(1))}

Firsts == Operatives \cup {IntValue(1), Symbol("f"), Symbol("g")}

Rests == {List(<<>>), List(<<Symbol("f")>>), List(<<IntValue(1), Symbol("y")>>)}

Envs ==
  {{}} \cup {{[name |-> "f", value |-> v]} : v \in Operatives \cup {IntValue(1)}}

InitEval ==
  /\ Quiet
  /\ prune = NoPrune
  /\ \E a \in Firsts, d \in Rests, env \in Envs :
       call = [fn |-> "Eval", pc |-> "eval", value |-> Pair(a, d), env |-> env,
               cont |-> "cont", f |-> <<>>, calls |-> <<>>, received |-> <<>>,
               trace |-> <<>>]

\* Pair.Eval: value.A.Eval(ctx, env, Chain(cont, ...)).
EvalFirst ==
  /\ call.fn = "Eval"
  /\ call.pc = "eval"
  /\ call' = [call EXCEPT !.pc = "chain", !.f = <<Eval(call.value.A, call.env)>>,
                          !.trace = Append(@, "first")]
  /\ UNCHANGED <<prune, thunk, res, op, pc, ret, tmp, w, bld, sol, wk, wg, prog, rec,
                 imageRef0>>

\* The chained continuation is called with what the first element evaluated
\* to: an error goes to cont, a value to the chained function.
Chain ==
  /\ call.fn = "Eval"
  /\ call.pc = "chain"
  /\ LET f == call.f[1] IN
     IF f.err # NoErr
       THEN call' = [call EXCEPT !.pc = "done", !.received = <<f>>,
                                 !.trace = Append(@, "cont")]
       ELSE LET r == apply(call.value, f.res, call.env, call.cont)
            IN  call' = [call EXCEPT !.pc = IF r.calls = <<>> THEN "done" ELSE "call",
                                     !.calls = call.calls \o r.calls,
                                     !.received = r.cont,
                                     !.trace = Append(@, IF r.calls = <<>> THEN "cont"
                                                        ELSE "call")]
  /\ UNCHANGED <<prune, thunk, res, op, pc, ret, tmp, w, bld, sol, wk, wg, prog, rec,
                 imageRef0>>

\* The combiner that was called runs and calls cont.
CombinerCall ==
  /\ call.fn = "Eval"
  /\ call.pc = "call"
  /\ LET c == call.calls[Len(call.calls)]
     IN  call' = [call EXCEPT !.pc = "done",
                              !.received = <<OperativeCall(c.combiner, c.val, c.env)>>,
                              !.trace = Append(@, "cont")]
  /\ UNCHANGED <<prune, thunk, res, op, pc, ret, tmp, w, bld, sol, wk, wg, prog, rec,
                 imageRef0>>

NextEval ==
  \/ EvalFirst
  \/ Chain
  \/ CombinerCall

SpecEval == InitEval /\ [][NextEval]_vars

\* C23: the first element of the pair is evaluated first; when it yields a
\* value that is no combiner, cont receives an error and no combiner is
\* called; when it yields a combiner, that combiner is called exactly once,
\* with the unevaluated rest of the pair, the environment of the evaluation
\* and cont itself.
C23_PairEval ==
  (call.fn = "Eval" /\ call.pc \in {"call", "done"}) =>
    /\ call.trace[1] = "first"
    /\ call.f = <<Eval(call.value.A, call.env)>>
    /\ (call.f[1].err = NoErr /\ call.f[1].res.kind # "operative") =>
         /\ call.calls = <<>>
         /\ Len(call.received) = 1 /\ call.received[1].err # NoErr
    /\ (call.f[1].err = NoErr /\ call.f[1].res.kind = "operative") =>
         call.calls = <<[combiner |-> call.f[1].res, val |-> call.value.D,
                         env |-> call.env, cont |-> call.cont]>>
    /\ call.pc = "done" => Len(call.received) = 1

\* A pair whose first element is a symbol bound to an operative, and whose
\* rest holds a bound symbol, has been evaluated: the operative was called
\* with the rest as it stands.
C23_Witness ==
  /\ call.fn = "Eval" /\ call.pc = "done"
  /\ call.value.A = Symbol("f")
  /\ call.value.D = List(<<Symbol("f")>>)
  /\ Len(call.calls) = 1
  /\ call.calls[1].val = List(<<Symbol("f")>>)
  /\ call.received[1].err = NoErr

(***************************************************************************)
(* C24: the stdout-capture variable of the Run nodes.                      *)
(***************************************************************************)
\* The states a state is built on: its base, the sources of its mounts,
\* the Run node a mount output or a rootfs is taken from, the source of a
\* copy.
Inputs(st) ==
  (IF "base" \in DOMAIN st THEN {st.base} ELSE {})
  \cup (IF "exec" \in DOMAIN st THEN {st.exec} ELSE {})
  \cup (IF "mounts" \in DOMAIN st
          THEN {st.mounts[i].source : i \in 1..Len(st.mounts)} ELSE {})
  \cup (IF "action" \in DOMAIN st /\ "from" \in DOMAIN st.action
          THEN {st.action.from} ELSE {})

\* The Run nodes of thunks in the graph of a state.
RECURSIVE RunNodes(_)
RunNodes(st) ==
  (IF st.op = "run" /\ "hostname" \in DOMAIN st THEN {st} ELSE {})
  \cup UNION {RunNodes(i) : i \in Inputs(st)}

\* The Run node of the top-level thunk in the definition build marshals.
TopRun(root) ==
  CASE root.op = "run" -> root
    [] root.op = "mount" -> root.exec
    [] OTHER -> root.action.from.exec

CarriesOutputEnv(n) ==
  \E i \in 1..Len(n.env) : n.env[i].name = "_BASS_OUTPUT"

\* C24: the Run node of the top-level thunk carries _BASS_OUTPUT=/bass/io/out,
\* and nothing else in its environment, exactly when the operation is Run
\* with a writer other than io.Discard or Read; Export and ExportPath never
\* ask for it; no Run node of a thunk translated recursively carries it.
C24_OutputEnv ==
  bld.def # NoDef =>
    LET top == TopRun(bld.def.root)
        requested == (op.kind = "Run" /\ ~op.discard) \/ op.kind = "Read"
    IN  /\ top.hostname = SHA256(thunk)
        /\ CarriesOutputEnv(top) <=> requested
        /\ requested => top.env = <<[name |-> "_BASS_OUTPUT", value |-> <<"bass", "io", "out">>]>>
        /\ op.kind \in {"Export", "ExportPath"} => ~CarriesOutputEnv(top)
        /\ \A n \in UNION {RunNodes(i) : i \in Inputs(top)} : ~CarriesOutputEnv(n)

\* A Read whose thunk has a base-image thunk, or whose mounts have a
\* producer: the top Run node carries the variable, the nested ones exist.
C24_Witness ==
  /\ bld.def # NoDef
  /\ (op.kind = "Run" /\ ~op.discard) \/ op.kind = "Read"
  /\ CarriesOutputEnv(TopRun(bld.def.root))
  /\ UNION {RunNodes(i) : i \in Inputs(TopRun(bld.def.root))} # {}

\* An Export or a Run to io.Discard has marshalled its definition.
C24_WitnessNotRequested ==
  /\ bld.def # NoDef
  /\ op.kind \in {"Export", "ExportPath"} \/ (op.kind = "Run" /\ op.discard)
  /\ ~CarriesOutputEnv(TopRun(bld.def.root))

(***************************************************************************)
(* C25: the source sub threaded through composition.                       *)
(***************************************************************************)
\* The mount of a Run node that GetMount(workDir) takes the output of.
WorkdirMount(st) == st.mounts[FirstAt(st.mounts, workDir)]

\* Where a path of a thunk's output lives inside the output of the Run
\* node's workdir mount: under the source path the mount was made with.
OutputAt(st, path) == Join(WorkdirMount(st).sourcePath, path)

\* The three steps of the threading, as the code takes them: a thunk-output
\* mount is the producer's workdir mount at join(producer's sub, path); a
\* Parent image hands the inner workdir mount and the inner sub on as the
\* base workdir and the base sub; ExportPath copies from join(sub, path).
C25_ThreadingSteps ==
  Translated =>
    LET ms == NewCommand(thunk).Mounts
        b0 == newBuilder(res.runtime, res.outs)
        run == res.r.st
        copy == transform([kind |-> "ExportPath", path |-> <<"out">>], run, res.r.sp)
    IN  /\ \A i \in 1..Len(ms) :
             ms[i].source.kind = "thunk" =>
               LET p == llb(b0, ms[i].source.thunk, FALSE) IN
               /\ run.mounts[4 + i].source = GetMount(p.st, workDir)
               /\ run.mounts[4 + i].sourcePath = Join(p.sp, ms[i].source.path)
        /\ thunk.image.kind = "thunk" =>
             LET p == llb(b0, thunk.image.thunk, FALSE)
                 base == imageRef(b0, thunk.image)
             IN  /\ base.run = GetMount(p.st, workDir)
                 /\ base.sp = p.sp
                 /\ (\A i \in 1..Len(ms) : mountTargetPath(ms[i]) # workDir) =>
                      /\ WorkdirMount(run) = AddMount(workDir, GetMount(p.st, workDir), p.sp)
                      /\ res.r.sp = p.sp
        /\ copy.action.from = GetMount(run, workDir)
        /\ copy.action.src = Join(res.r.sp, <<"out">>)

\* C25: with these steps a thunk path resolves, at any depth, to the place
\* inside the workdir mount where the producing thunk's output lives: the
\* source path of a thunk-output mount, and the path ExportPath copies
\* from, are the path under the source path of the producer's workdir
\* mount.
C25_SourceSubThreading ==
  Translated =>
    LET ms == NewCommand(thunk).Mounts
        b0 == newBuilder(res.runtime, res.outs)
        run == res.r.st
        copy == transform([kind |-> "ExportPath", path |-> <<"out">>], run, res.r.sp)
    IN  /\ \A i \in 1..Len(ms) :
             ms[i].source.kind = "thunk" =>
               run.mounts[4 + i].sourcePath
                 = OutputAt(llb(b0, ms[i].source.thunk, FALSE).st, ms[i].source.path)
        /\ copy.action.src = OutputAt(run, <<"out">>)

\* The same, for thunks of which at most one mount targets the work
\* directory.
C25_SingleRemount ==
  (Translated /\ Cardinality(MountsAt(res.r.st, workDir)) = 1) =>
    C25_SourceSubThreading

(***************************************************************************)
(* C26: translation errors.                                                *)
(***************************************************************************)
\* The errors translation raises: builder.shim, builder.imageRef and
\* builder.initializeMount.
TranslationErrors ==
  {<<"no shim found">>, <<"unsupported image type">>, <<"unhandled mount source">>}

\* The error at the bottom of a chain of wraps.
Raised(err) == <<err[Len(err)]>>

\* C26: a translation error raised at any depth of the thunk graph leaves
\* the callback of the pass-1 Build without a definition, and the callback
\* returns the very error that was raised, with nothing wrapped around it.
C26_ErrorUnwrapped ==
  (bld.cb = "err" /\ bld.cbErr # NoErr /\ Raised(bld.cbErr) \in TranslationErrors) =>
    /\ bld.def = NoDef
    /\ bld.cbErr = Raised(bld.cbErr)

\* The callback returns what builder.llb returned, and no definition, and a
\* translation error raised in the top-level thunk itself is returned as it
\* was raised.
C26_CallbackAddsNoWrap ==
  (bld.cb = "err" /\ bld.cbErr # NoErr /\ Raised(bld.cbErr) \in TranslationErrors) =>
    /\ bld.def = NoDef
    /\ bld.cbErr = llb(newBuilder(op.runtime, bld.outs), thunk, captureStdout(op)).err
    /\ Referenced(thunk) = {} => bld.cbErr = Raised(bld.cbErr)

\* Translation stops at the first mount it cannot translate: no Run node
\* is returned, and the tables of the builder hold nothing of the mounts
\* after it.
C26_AbortsAtError ==
  (res.kind = "done" /\ res.r.kind = "err" /\ res.r.err = <<"unhandled mount source">>) =>
    LET ms == NewCommand(thunk).Mounts
        k == CHOOSE i \in 1..Len(ms) :
               /\ ms[i].source.kind = "fs"
               /\ \A j \in 1..(i - 1) : ms[j].source.kind # "fs"
        before == {ms[j].source.kind : j \in 1..(k - 1)}
    IN  /\ "st" \notin DOMAIN res.r
        /\ thunk.image.kind # "thunk" =>
             /\ "secret" \notin before => res.r.b.secrets = {}
             /\ {"host", "thunk"} \cap before = {} => res.r.b.localDirs = {}

(***************************************************************************)
(* SpecUnpack: the translation of a thunk whose image is an OCI archive    *)
(* file, step by step: builder.unpackImageArchive selects the shim,        *)
(* translates the producer of the archive, issues the get-config solve,    *)
(* whose callback reads the config, and returns to builder.llb.            *)
(***************************************************************************)
MaxEnv == 2

\* The entries of a config's Env array, as strings.SplitN(env, "=", 2)
\* sees them: the part before the first "=", whether there is one, and the
\* part after it.
EnvEntries ==
  {[key |-> "PATH", eq |-> TRUE, val |-> "/opt/bin"],
   [key |-> "DEBUG", eq |-> FALSE, val |-> ""],
   [key |-> "", eq |-> TRUE, val |-> "x"],
   [key |-> "A", eq |-> TRUE, val |-> ""]}

\* What the callback of the get-config solve ends with: the config's Env
\* array, or the error of gw.Solve, SingleRef, ReadFile or json.Unmarshal.
ConfigOutcomes ==
  {[ok |-> TRUE, err |-> NoErr, env |-> e] : e \in SeqsUpTo(EnvEntries, MaxEnv)}
  \cup {[ok |-> FALSE, err |-> e, env |-> <<>>] :
          e \in {SolveErr, <<"get single ref", "no ref">>,
                 <<"read config.json", "not found">>,
                 <<"unmarshal runtime config", "bad json">>}}

\* A producer that cannot be translated.
LeafBroken == Thunk(EmptyImage, FALSE, <<>>)

\* The thunks with an OCI archive image.
ArchiveThunks ==
  {Thunk(FileRef(p, <<"image.tar">>, "v2"), FALSE, ms) :
     p \in {LeafPlain, LeafInsecure, LeafBroken},
     ms \in {<<>>, <<Mount(HostSource("ctx", <<"h">>), Rel(<<"src">>))>>}}

NoOutcome == [ok |-> FALSE, err |-> NoErr, env |-> <<>>]

InitUnpack ==
  /\ Quiet
  /\ prune = NoPrune
  /\ \E t \in ArchiveThunks, rt \in Runtimes :
       call = [fn |-> "unpack", pc |-> "start", thunk |-> t, runtime |-> rt,
               translated |-> FALSE, issued |-> FALSE, producer |-> [kind |-> "none"],
               out |-> NoOutcome, r |-> [kind |-> "none"]]

\* unpackImageArchive: b.shim(); without a shim it returns the error.
UnpackShim ==
  /\ call.fn = "unpack"
  /\ call.pc = "start"
  /\ LET b == newBuilder(call.runtime, <<>>) IN
       call' = IF shim(b).err # NoErr
                 THEN [call EXCEPT !.pc = "returned", !.r = llb(b, call.thunk, FALSE)]
                 ELSE [call EXCEPT !.pc = "shim"]
  /\ UNCHANGED <<prune, thunk, res, op, pc, ret, tmp, w, bld, sol, wk, wg, prog, rec,
                 imageRef0>>

\* unpackImageArchive: b.llb of the producer; its error is returned wrapped.
UnpackTranslate ==
  /\ call.fn = "unpack"
  /\ call.pc = "shim"
  /\ LET b == newBuilder(call.runtime, <<>>)
         t == llb(b, call.thunk.image.ref.file.thunk, FALSE)
     IN  call' = IF t.kind # "ok"
                   THEN [call EXCEPT !.pc = "returned", !.producer = t,
                                     !.r = llb(b, call.thunk, FALSE)]
                   ELSE [call EXCEPT !.pc = "translated", !.translated = TRUE,
                                     !.producer = t]
  /\ UNCHANGED <<prune, thunk, res, op, pc, ret, tmp, w, bld, sol, wk, wg, prog, rec,
                 imageRef0>>

\* unpackImageArchive: Client.Build is called for the get-config solve.
UnpackSubmit ==
  /\ call.fn = "unpack"
  /\ call.pc = "translated"
  /\ llb(newBuilder(call.runtime, <<>>), call.thunk, FALSE).kind = "await"
  /\ call' = [call EXCEPT !.pc = "solving", !.issued = TRUE]
  /\ UNCHANGED <<prune, thunk, res, op, pc, ret, tmp, w, bld, sol, wk, wg, prog, rec,
                 imageRef0>>

\* The callback of the get-config solve: it solves, reads /config.json and
\* parses it, or fails at one of these.
GetConfigCallback ==
  /\ call.fn = "unpack"
  /\ call.pc = "solving"
  /\ \E out \in ConfigOutcomes : call' = [call EXCEPT !.pc = "solved", !.out = out]
  /\ UNCHANGED <<prune, thunk, res, op, pc, ret, tmp, w, bld, sol, wk, wg, prog, rec,
                 imageRef0>>

\* unpackImageArchive returns to imageRef and builder.llb goes on with the
\* thunk, or returns the error.
UnpackDone ==
  /\ call.fn = "unpack"
  /\ call.pc = "solved"
  /\ call' = [call EXCEPT !.pc = "returned",
                !.r = llb(newBuilder(call.runtime, <<call.out>>), call.thunk, FALSE)]
  /\ UNCHANGED <<prune, thunk, res, op, pc, ret, tmp, w, bld, sol, wk, wg, prog, rec,
                 imageRef0>>

NextUnpack ==
  \/ UnpackShim
  \/ UnpackTranslate
  \/ UnpackSubmit
  \/ GetConfigCallback
  \/ UnpackDone

SpecUnpack == InitUnpack /\ [][NextUnpack]_vars

\* The indices of the entries of an Env array that have a non-empty key.
Keyed(env) == {k \in 1..Len(env) : env[k].key # ""}

\* C27: the get-config solve is issued only after the producing thunk was
\* translated; the thunk is translated exactly when that solve was issued
\* and its callback read the config; the rootfs then carries one
\* environment addition for each entry of the Env array with a non-empty
\* key, in the order of the array, an entry without "=" adding the key
\* with an empty value; when the solve or the parsing fails, translation of
\* the thunk fails with that error.
C27_OCIUnpack ==
  call.fn = "unpack" =>
    /\ call.issued => (call.translated /\ call.producer.kind = "ok")
    /\ call.pc = "returned" =>
         /\ call.r.kind \in {"ok", "err"}
         /\ call.r.kind = "ok" <=> (call.issued /\ call.out.ok)
         /\ call.r.kind = "ok" =>
              LET rootfs == call.r.st.base
                  env == call.out.env
              IN  /\ rootfs.op = "env"
                  /\ rootfs.base.op = "mount" /\ rootfs.base.target = <<"rootfs">>
                  /\ Len(rootfs.env) = Cardinality(Keyed(env))
                  /\ \A k \in Keyed(env) :
                       LET a == rootfs.env[Cardinality({j \in Keyed(env) : j <= k})]
                       IN  /\ a.name = env[k].key
                           /\ a.value = IF env[k].eq THEN env[k].val ELSE ""
         /\ (call.issued /\ ~call.out.ok) =>
              call.r.err = NiceError("oci unpack failed", call.out.err)

\* An archive was unpacked whose config has an entry with an empty key
\* followed by an entry without "=".
C27_Witness ==
  /\ call.fn = "unpack"
  /\ call.pc = "returned"
  /\ call.r.kind = "ok"
  /\ Len(call.out.env) = 2
  /\ call.out.env[1].key = ""
  /\ ~call.out.env[2].eq
  /\ Len(call.r.st.base.env) = 1

\* The get-config solve or the parsing of the config failed.
C27_WitnessFailed ==
  /\ call.fn = "unpack"
  /\ call.pc = "returned"
  /\ call.issued
  /\ ~call.out.ok

(***************************************************************************)
(* C28: Prune and its printing goroutine.                                  *)
(***************************************************************************)
\* The lines of the usage records sent so far, in the order sent.
SentLines == [i \in 1..Len(prune.sent) |-> PruneLine(prune.sent[i])]

\* C28: the record channel is closed only after Client.Prune has returned;
\* when Prune has returned, the goroutine has exited having consumed every
\* record sent, and stderr shows one line for each record, in the order
\* sent, and then the total, which is the sum of the sizes of the records
\* sent.
C28_PrunePrints ==
  /\ prune.pc # "none" /\ prune.closed => prune.solver = "returned"
  /\ prune.pc # "none" /\ prune.ret.returned =>
       /\ prune.printer.pc = "done"
       /\ prune.total = SumSizes(prune.sent)
       /\ prune.stderr = SentLines \o <<TotalLine(SumSizes(prune.sent))>>

\* The synchronisation the claim describes: the channel is closed only
\* after Client.Prune has returned; when Prune has returned the goroutine
\* has exited, every record sent was written to the tabwriter, in the order
\* sent, and added to the total; a total that is printed is that sum.
C28_PrinterDone ==
  /\ prune.pc # "none" /\ prune.closed => prune.solver = "returned"
  /\ prune.pc # "none" /\ prune.ret.returned =>
       /\ prune.printer.pc = "done"
       /\ prune.total = SumSizes(prune.sent)
       /\ IF prune.ret.err = NoErr
            THEN /\ prune.stderr = SentLines \o <<TotalLine(SumSizes(prune.sent))>>
                 /\ prune.tw = <<>>
            ELSE /\ prune.tw = SentLines
                 /\ prune.stderr = <<>>

(***************************************************************************)
(* C29: the workdir mount of a Run node.                                   *)
(***************************************************************************)
\* C29: the Run node of a translated thunk, whatever its image and its
\* mounts, has exactly one mount at the work directory, and the returned
\* workdirSourceSub is the source path of that mount.
C29_OneWorkdirMount ==
  Translated =>
    /\ Cardinality(MountsAt(res.r.st, workDir)) = 1
    /\ \A k \in MountsAt(res.r.st, workDir) : res.r.sp = res.r.st.mounts[k].sourcePath

\* The Run node has a mount at the work directory, and exactly one, with
\* the returned sub as its source path, when at most one mount of the
\* thunk targets the work directory.
C29_AtMostOneRemount ==
  Translated =>
    LET ms == NewCommand(thunk).Mounts
        W == {i \in 1..Len(ms) : mountTargetPath(ms[i]) = workDir}
    IN  /\ MountsAt(res.r.st, workDir) # {}
        /\ Cardinality(W) <= 1 => C29_OneWorkdirMount
        /\ Cardinality(MountsAt(res.r.st, workDir)) = (IF W = {} THEN 1 ELSE Cardinality(W))

(***************************************************************************)
(* C30: the workers of pass 1 and pass 2 on the status proxy of build.     *)
(***************************************************************************)
\* The worker of solve s holds a status it has received and not yet both
\* written to the progress model and recorded.
Processing(s) == wk[s].pc \in {"write", "record"}

\* C30: in a build operation the workers of pass 1 and of pass 2 are never
\* at work on the progress model and the recorder of their proxy at the
\* same time: while the worker of pass 2 holds a status, every status of
\* pass 1 is written and recorded, and in the progress model and in the
\* recorder no status of pass 2 comes before a status of pass 1.
C30_PassesSerialised ==
  IsBuildOp =>
    /\ ~(Processing(1) /\ Processing(2))
    /\ Processing(2) => /\ Of(rec, 1) = Sent(1, sol[1].nsent)
                        /\ Of(prog[1], 1) = Sent(1, sol[1].nsent)
    /\ \A i, j \in 1..Len(rec) : (i < j /\ rec[i].solve = 2) => rec[j].solve # 1
    /\ \A i, j \in 1..Len(prog[1]) : (i < j /\ prog[1][i].solve = 2) => prog[1][j].solve # 1

\* What the code does ensure: the worker of pass 2 is started only after
\* the pass-1 Build has returned, so that of pass 1 only the last status
\* sent can still be in the hands of its worker.
C30_LastStatusOnly ==
  (IsBuildOp /\ wk[2].pc # "none") =>
    /\ sol[1].state = "returned"
    /\ Len(Of(rec, 1)) >= sol[1].nsent - 1
    /\ Len(Of(prog[1], 1)) >= sol[1].nsent - 1

====
